---- MODULE Spec2Model ----
(***************************************************************************)
(* A model of the OLAF installer, src/tools/install_olaf.py: the overlay   *)
(* merger, the state preserver, the prune engine, the configuration        *)
(* normalizer and the pipeline of main() that runs them.                   *)
(*                                                                         *)
(* A directory tree is a nested value: a node is a file (with its data) or *)
(* a directory (a function from entry names to nodes).  A path is a        *)
(* sequence of names.  File data is a pair <<tag, payload>>: "raw" for     *)
(* opaque bytes, and one tag per kind of JSON document the installer       *)
(* parses.                                                                 *)
(***************************************************************************)
EXTENDS Integers, Sequences, FiniteSets, TLC

VARIABLES
    pc,            \* position of the running scenario / of main()
    target,        \* the installation root, target_dir (a tree)
    outside,       \* the user's home directory without the installation root
    tmp,           \* the temp directory, tempfile.gettempdir() (a tree)
    local_root,    \* the project directory, --local (a tree)
    args,          \* the command line flags of main()
    secondary,     \* main()'s secondary: the registry entries
    remote,        \* the repositories git can clone: <<repo, branch>> -> tree
    idx,           \* main()'s idx: the secondary the loop is at
    applied,       \* history: the sources whose package subtree was merged
    clock,         \* datetime.now()
    rewrote,       \* TRUE when the last normalization wrote the config file
    preserve_root, \* main()'s preserve_root: a bundle's name in tmp, or "None"
    snapA,         \* the snapshot (clone directory) merged first
    snapB,         \* the snapshot (clone directory) merged second
    before,        \* the installation root when the scenario's operation began
    restored,      \* the installation root after the first restore; in a run of
                   \* main(), history: the bundles restored
    merges,        \* number of overlay merges made since preserve
    written,       \* TRUE once a merge changed a preserved directory
    raised         \* TRUE when an operation of the scenario raised

vars == <<pc, target, outside, tmp, local_root, args, secondary, remote, idx,
          applied, clock, rewrote, preserve_root, snapA, snapB, before, restored, merges, written, raised>>

preserveVars == <<tmp, preserve_root, restored, merges, written>>
mainVars == <<outside, local_root, args, secondary, remote, idx, applied, clock,
              rewrote>>

---------------------------------------------------------------------------
(* Trees *)

NoData == <<"none", 0>>
NoEntries == <<>>

Missing == [kind |-> "none", data |-> NoData, ch |-> NoEntries]
File(d) == [kind |-> "file", data |-> d, ch |-> NoEntries]
Dir(c) == [kind |-> "dir", data |-> NoData, ch |-> c]
EmptyDir == Dir(NoEntries)
Raw(v) == File(<<"raw", v>>)

\* Path.exists(), Path.is_dir(), Path.is_file() on a looked-up node
NodeExists(n) == n.kind # "none"
IsDir(n) == n.kind = "dir"
IsFile(n) == n.kind = "file"

\* the entry `name` of directory node n (Missing when there is none)
Child(n, name) ==
    IF IsDir(n) /\ name \in DOMAIN n.ch THEN n.ch[name] ELSE Missing

\* the node at path p under node n
RECURSIVE Lookup(_, _)
Lookup(n, p) ==
    IF p = <<>> THEN n ELSE Lookup(Child(n, Head(p)), Tail(p))

\* directory entries `c` with entry `name` set to node v
WithEntry(c, name, v) ==
    [x \in (DOMAIN c) \cup {name} |-> IF x = name THEN v ELSE c[x]]

\* directory entries `c` without entry `name`
WithoutEntry(c, name) ==
    [x \in (DOMAIN c) \ {name} |-> c[x]]

\* node n with the node at path p replaced by v; missing parents are
\* created as directories (mkdir(parents=True, exist_ok=True))
RECURSIVE Put(_, _, _)
Put(n, p, v) ==
    IF p = <<>> THEN v
    ELSE LET c == IF IsDir(n) THEN n.ch ELSE NoEntries
         IN Dir(WithEntry(c, Head(p), Put(Child(n, Head(p)), Tail(p), v)))

\* node n with the subtree at path p removed (shutil.rmtree of an
\* existing path; nothing happens when the path does not exist)
RECURSIVE Remove(_, _)
Remove(n, p) ==
    IF p = <<>> \/ ~NodeExists(Lookup(n, p)) THEN n
    ELSE IF Len(p) = 1 THEN Dir(WithoutEntry(n.ch, Head(p)))
    ELSE Dir(WithEntry(n.ch, Head(p), Remove(n.ch[Head(p)], Tail(p))))

\* every path of node n (files and directories), relative to n
RECURSIVE PathsOf(_)
PathsOf(n) ==
    IF ~IsDir(n) THEN {}
    ELSE UNION {{<<name>>} \cup {<<name>> \o q : q \in PathsOf(n.ch[name])}
                : name \in DOMAIN n.ch}

FilePathsOf(n) == {p \in PathsOf(n) : IsFile(Lookup(n, p))}

---------------------------------------------------------------------------
(* shutil.copy2 and shutil.copytree(dirs_exist_ok=True) *)

Done(n) == [node |-> n, err |-> "none"]
Failed(n, e) == [node |-> n, err |-> e]

\* shutil.copy2(src, dest) for a source file called `name`, where dst is the
\* node now at dest.  A dest that is a directory receives the file inside
\* it, under the source's base name; opening a directory for writing fails.
Copy2(src, name, dst) ==
    IF IsDir(dst)
    THEN IF IsDir(Child(dst, name))
         THEN Failed(dst, "OSError")
         ELSE Done(Dir(WithEntry(dst.ch, name, File(src.data))))
    ELSE Done(File(src.data))

\* shutil.copytree(src, dest, dirs_exist_ok=True) for a source directory,
\* where dst is the node now at dest.  os.makedirs fails on a dest that is a
\* file; an entry that fails is recorded and the other entries are still
\* copied, the errors being raised together at the end.
RECURSIVE CopyTreeMerge(_, _)
CopyTreeMerge(src, dst) ==
    IF IsFile(dst) THEN Failed(dst, "OSError")
    ELSE LET base == IF IsDir(dst) THEN dst.ch ELSE NoEntries
             res == [name \in DOMAIN src.ch |->
                        IF IsDir(src.ch[name])
                        THEN CopyTreeMerge(src.ch[name], Child(dst, name))
                        ELSE Copy2(src.ch[name], name, Child(dst, name))]
             merged == [name \in (DOMAIN base) \cup (DOMAIN src.ch) |->
                           IF name \in DOMAIN src.ch
                           THEN res[name].node ELSE base[name]]
         IN IF \A name \in DOMAIN src.ch : res[name].err = "none"
            THEN Done(Dir(merged))
            ELSE Failed(Dir(merged), "OSError")

\* a copy that takes the files of src and leaves its sub-directories out
CopyTreeFilesOnly(src) ==
    Dir([name \in {x \in DOMAIN src.ch : IsFile(src.ch[x])} |-> src.ch[name]])

\* shutil.copytree(src, dest) onto a dest that does not exist: a plain copy
CopyTree(src) == src

\* one top-level entry of merge_dir_excluding_top_level's loop
MergeChild(src, dst, name) ==
    IF IsDir(src.ch[name])
    THEN CopyTreeMerge(src.ch[name], Child(dst, name))
    ELSE Copy2(src.ch[name], name, Child(dst, name))

\* dst after the loop has handled the entries in `names`
MergeChildren(src, dst, names) ==
    Dir([name \in (DOMAIN dst.ch) \cup names |->
            IF name \in names
            THEN MergeChild(src, dst, name).node ELSE dst.ch[name]])

\* merge_dir_excluding_top_level(src, dst, exclude_names): the set of
\* results [node, err] the call can end with.  The loop stops at the first
\* entry that raises, and src.iterdir() yields the entries in an arbitrary
\* order: any set of entries that do not raise may have been handled before
\* the one that does.
merge_dir_excluding_top_level(src, dst, exclude_names) ==
    IF ~IsDir(src) THEN {Failed(dst, "RuntimeError")}
    ELSE IF IsFile(dst) THEN {Failed(dst, "OSError")}
    ELSE LET d == IF IsDir(dst) THEN dst ELSE EmptyDir
             todo == (DOMAIN src.ch) \ exclude_names
             bad == {name \in todo : MergeChild(src, d, name).err # "none"}
         IN IF bad = {}
            THEN {Done(MergeChildren(src, d, todo))}
            ELSE {Failed(MergeChildren(src, d, handled \cup {f}), "OSError") :
                    f \in bad, handled \in SUBSET (todo \ bad)}

ExcludeNames == {"docs", "tools"}

\* a merge that falls back to the snapshot's root directory when the
\* snapshot has no package subtree
merge_install_from_clone_or_root(clone, dst) ==
    IF ~NodeExists(Child(clone, ".olaf"))
    THEN merge_dir_excluding_top_level(clone, dst, ExcludeNames)
    ELSE merge_dir_excluding_top_level(Child(clone, ".olaf"), dst, ExcludeNames)

\* merge_install_from_clone(clone_dir, target_dir): clone is the snapshot's
\* root directory
merge_install_from_clone(clone, dst) ==
    IF ~NodeExists(Child(clone, ".olaf"))
    THEN {Failed(dst, "RuntimeError")}
    ELSE merge_dir_excluding_top_level(Child(clone, ".olaf"), dst, ExcludeNames)

---------------------------------------------------------------------------
(* Documents.  File data <<tag, payload>>:                                 *)
(*   "raw"       opaque bytes that are not valid JSON                      *)
(*   "json"      valid JSON whose top level is not an object               *)
(*   "manifest"  a competency manifest {"bom": {"skills": payload}}        *)

Manifest(skills) == File(<<"manifest", skills>>)

\* json.loads succeeded and gave a dict
IsJsonObject(n) == IsFile(n) /\ n.data[1] \notin {"raw", "json"}

---------------------------------------------------------------------------
(* rmtree_if_exists *)

\* rmtree_if_exists(path) on the tree `root`, no other process holding a
\* lock: nothing when the path does not exist, the subtree removed when it
\* is a directory; shutil.rmtree raises NotADirectoryError on a file.
rmtree_if_exists(root, path) ==
    LET n == Lookup(root, path)
    IN IF ~NodeExists(n) THEN Done(root)
       ELSE IF IsFile(n) THEN Failed(root, "OSError")
       ELSE Done(Remove(root, path))

---------------------------------------------------------------------------
(* State preserver *)

KernelPath == <<"competencies", "my-competencies">>
KernelManifestPath == KernelPath \o <<"competency-manifest.json">>
SkillPath(sid) == <<"skills", sid>>

\* the names tempfile.mkdtemp(prefix="olaf_preserve_") hands out: the
\* first one not in use in the temp directory
PreserveNames ==
    <<"olaf_preserve_1", "olaf_preserve_2", "olaf_preserve_3", "olaf_preserve_4">>

\* a bundle directory with a fixed name
mkdtemp_fixed(tmpdir) == PreserveNames[1]

mkdtemp(tmpdir) ==
    PreserveNames[CHOOSE i \in 1..Len(PreserveNames) :
                     /\ PreserveNames[i] \notin DOMAIN tmpdir.ch
                     /\ \A j \in 1..(i - 1) : PreserveNames[j] \in DOMAIN tmpdir.ch]

\* the skill ids preserve_my_competencies reads from the kernel manifest:
\* the non-empty strings of bom.skills; a manifest that cannot be read or
\* parsed counts as {}
ReferencedSkills(manifest) ==
    IF IsJsonObject(manifest) /\ manifest.data[1] = "manifest"
    THEN {manifest.data[2][i] : i \in DOMAIN manifest.data[2]} \ {""}
    ELSE {}

\* a preserve that copies the kernel package and leaves out the skills it
\* references
preserve_kernel_only(tgt, tmpdir) ==
    LET backup_root == mkdtemp(tmpdir)
        bundle == Dir("competencies" :>
                         Dir("my-competencies" :> CopyTree(Lookup(tgt, KernelPath))))
    IN IF ~NodeExists(Lookup(tgt, KernelManifestPath))
       THEN [root |-> "None", tmp |-> tmpdir, err |-> "none"]
       ELSE [root |-> backup_root,
             tmp |-> Dir(WithEntry(tmpdir.ch, backup_root, bundle)),
             err |-> "none"]

\* preserve_my_competencies(target_dir): [root, tmp, err], root the name of
\* the bundle directory made in the temp directory, or "None"
preserve_my_competencies(tgt, tmpdir) ==
    LET manifest == Lookup(tgt, KernelManifestPath)
        skill_ids == ReferencedSkills(manifest)
        kept == {sid \in skill_ids : IsDir(Lookup(tgt, SkillPath(sid)))}
        backup_root == mkdtemp(tmpdir)
        bundle ==
            Dir("competencies" :>
                    Dir("my-competencies" :> CopyTree(Lookup(tgt, KernelPath)))
                @@ "skills" :>
                    Dir([sid \in kept |-> CopyTree(Lookup(tgt, SkillPath(sid)))]))
    IN IF ~NodeExists(manifest)
       THEN [root |-> "None", tmp |-> tmpdir, err |-> "none"]
       ELSE IF IsFile(manifest) /\ manifest.data[1] = "json"
       THEN [root |-> "None", tmp |-> tmpdir, err |-> "AttributeError"]
       ELSE [root |-> backup_root,
             tmp |-> Dir(WithEntry(tmpdir.ch, backup_root, bundle)),
             err |-> "none"]

\* a restore that merges the preserved copy into the directory at `path`
\* without removing it first
RestoreDirMerging(tgt, path, src) ==
    LET r == CopyTreeMerge(src, Lookup(tgt, path))
    IN [node |-> Put(tgt, path, r.node), err |-> r.err]

\* one restored directory: rmtree_if_exists(dst), mkdir of the parent,
\* shutil.copytree(src, dst)
RestoreDir(tgt, path, src) ==
    LET rm == rmtree_if_exists(tgt, path)
    IN IF rm.err # "none" THEN rm
       ELSE IF IsFile(Lookup(rm.node, SubSeq(path, 1, Len(path) - 1)))
       THEN Failed(rm.node, "OSError")
       ELSE Done(Put(rm.node, path, CopyTree(src)))

\* the skills of the bundle restored in turn
RECURSIVE RestoreSkills(_, _, _)
RestoreSkills(tgt, preserved_skills, todo) ==
    IF todo = {} THEN Done(tgt)
    ELSE LET sid == CHOOSE x \in todo : TRUE
             r == RestoreDir(tgt, SkillPath(sid), preserved_skills.ch[sid])
         IN IF r.err # "none" THEN r
            ELSE RestoreSkills(r.node, preserved_skills, todo \ {sid})

\* a restore that, given no bundle, resets the kernel package path
restore_or_reset_my_competencies(tgt, tmpdir, backup_root) ==
    IF backup_root = "None" THEN rmtree_if_exists(tgt, KernelPath)
    ELSE LET bundle == Child(tmpdir, backup_root)
         IN RestoreDir(tgt, KernelPath, Lookup(bundle, KernelPath))

\* a restore that puts the bundle's skills directory in the place of the
\* whole skills directory of the installation root
restore_replacing_skills_dir(tgt, tmpdir, backup_root) ==
    IF backup_root = "None" THEN Done(tgt)
    ELSE LET bundle == Child(tmpdir, backup_root)
             preserved_comp == Lookup(bundle, KernelPath)
             comp == IF NodeExists(preserved_comp)
                     THEN RestoreDir(tgt, KernelPath, preserved_comp)
                     ELSE Done(tgt)
         IN IF comp.err # "none" THEN comp
            ELSE IF ~NodeExists(Child(bundle, "skills")) THEN comp
            ELSE RestoreDir(comp.node, <<"skills">>, Child(bundle, "skills"))

\* restore_my_competencies(target_dir, backup_root): [node, err]
restore_my_competencies(tgt, tmpdir, backup_root) ==
    IF backup_root = "None" THEN Done(tgt)
    ELSE LET bundle == Child(tmpdir, backup_root)
             preserved_comp == Lookup(bundle, KernelPath)
             comp == IF NodeExists(preserved_comp)
                     THEN RestoreDir(tgt, KernelPath, preserved_comp)
                     ELSE Done(tgt)
             preserved_skills == Child(bundle, "skills")
         IN IF comp.err # "none" THEN comp
            ELSE IF ~NodeExists(preserved_skills) THEN comp
            ELSE RestoreSkills(comp.node, preserved_skills,
                     {sid \in DOMAIN preserved_skills.ch :
                         IsDir(preserved_skills.ch[sid])})

---------------------------------------------------------------------------
(* Prune engine *)

\* a prune list document {"skills": [...], "competencies": [...]}
PruneDoc(skills, comps) == File(<<"prune", <<skills, comps>> >>)

\* str.strip() on the identifiers the prune lists of the model hold
Strip(s) ==
    CASE s = " s1 " -> "s1"
      [] s = "  " -> ""
      [] OTHER -> s

\* the components of an identifier taken as a path: "/" first when the
\* identifier is an absolute path
Segments(s) ==
    CASE s = "../reference" -> <<"..", "reference">>
      [] s = "s1/scripts" -> <<"s1", "scripts">>
      [] s = "/home/documents" -> <<"/", "home", "documents">>
      [] OTHER -> <<s>>

\* every identifier of the model after strip(), in the order of sorted()
SortedIds ==
    <<"..", "../reference", "/home/documents", "c1", "c9", "core",
      "my-competencies", "s1", "s1/scripts", "s2", "s9">>

\* str.lower() on the entry names of the model
Lower(name) ==
    CASE name = "Reference" -> "reference"
      [] OTHER -> name

\* _load_prune_list_from_file(path): <<skills, competencies>>, the stripped
\* non-empty identifiers of each list; a missing, unreadable or non-object
\* document gives two empty sets
_load_prune_list_from_file(n) ==
    IF IsJsonObject(n) /\ n.data[1] = "prune"
    THEN <<{Strip(n.data[2][1][i]) : i \in DOMAIN n.data[2][1]} \ {""},
           {Strip(n.data[2][2][i]) : i \in DOMAIN n.data[2][2]} \ {""}>>
    ELSE <<{}, {}>>

PruneListPaths ==
    <<(<<"reference", "olaf-prune-list.json">>), (<<"reference", "prune-list.json">>)>>

\* a prune list source: the directory it is in (0 the seed clone, i > 0 the
\* i-th secondary clone directory, -1 the local root) and its path there
Source(dir, path) == [dir |-> dir, path |-> path]

\* the key the sources are made unique by: str(path).lower()
SourceKey(s) == [dir |-> s.dir, path |-> [i \in DOMAIN s.path |-> Lower(s.path[i])]]

\* "unique but preserve order": a source whose key was seen is dropped
RECURSIVE UniqueSources(_, _)
UniqueSources(sources, seen) ==
    IF sources = <<>> THEN <<>>
    ELSE IF SourceKey(Head(sources)) \in seen
         THEN UniqueSources(Tail(sources), seen)
         ELSE <<Head(sources)>>
              \o UniqueSources(Tail(sources), seen \cup {SourceKey(Head(sources))})

\* _collect_prune_lists: [skills, comps, sources].  prune_file is the
\* --prune-file path relative to the local root, <<>> when not given.
_collect_prune_lists(clone, secondary_clone_dirs, local, prune_file) ==
    LET read(s) == Lookup(IF s.dir = 0 THEN clone
                          ELSE IF s.dir > 0 THEN secondary_clone_dirs[s.dir]
                          ELSE local,
                          s.path)
        dirs == <<0>> \o [i \in DOMAIN secondary_clone_dirs |-> i] \o <<-1>>
        cands == (IF prune_file # <<>> THEN <<Source(-1, prune_file)>> ELSE <<>>)
                 \o [k \in 1..(2 * Len(dirs)) |->
                        Source(dirs[(k + 1) \div 2], PruneListPaths[2 - (k % 2)])]
        IsSource(c) == IsFile(read(c))
        unique_sources == UniqueSources(SelectSeq(cands, IsSource), {})
        loaded == [i \in DOMAIN unique_sources |->
                      _load_prune_list_from_file(read(unique_sources[i]))]
    IN [skills |-> UNION {loaded[i][1] : i \in DOMAIN loaded},
        comps |-> UNION {loaded[i][2] : i \in DOMAIN loaded},
        sources |-> unique_sources]

\* the file system around the installation root: the root directory holds
\* home, which holds the installation root .olaf beside the user's other
\* directories (`outside`)
TargetPath == <<"home", ".olaf">>

World(tgt, out) ==
    Dir("home" :> Dir(IF NodeExists(tgt) THEN WithEntry(out.ch, ".olaf", tgt)
                      ELSE out.ch))

OutsideOf(world) == Dir(WithoutEntry(Child(world, "home").ch, ".olaf"))

NoPath == <<"?">>

\* the absolute path the operating system resolves `segs` to, starting in
\* the directory `cur`: "." and ".." are followed, and every directory on
\* the way has to exist
RECURSIVE Resolve(_, _, _)
Resolve(world, cur, segs) ==
    IF segs = <<>> THEN cur
    ELSE IF Head(segs) = "/" THEN Resolve(world, <<>>, Tail(segs))
    ELSE IF ~IsDir(Lookup(world, cur)) THEN NoPath
    ELSE IF Head(segs) = "." THEN Resolve(world, cur, Tail(segs))
    ELSE IF Head(segs) = ".."
         THEN Resolve(world, SubSeq(cur, 1, Len(cur) - 1), Tail(segs))
    ELSE Resolve(world, cur \o <<Head(segs)>>, Tail(segs))

\* a loop turn that removes the victim without testing that it exists
PruneOneUnchecked(world, base, id) ==
    LET victim == Resolve(world, base, Segments(id))
    IN IF victim = NoPath \/ ~IsDir(Lookup(world, victim)) THEN Failed(world, "OSError")
       ELSE rmtree_if_exists(world, victim)

\* one turn of apply_prune_list's loops: victim = base / id; removed with
\* rmtree_if_exists when it exists and is a directory.  shutil.rmtree of a
\* path that ends in ".." empties the directory and then raises.
PruneOne(world, base, id) ==
    LET segs == Segments(id)
        victim == Resolve(world, base, segs)
    IN IF victim = NoPath \/ ~IsDir(Lookup(world, victim)) THEN Done(world)
       ELSE IF segs[Len(segs)] = ".."
       THEN Failed(Put(world, victim, EmptyDir), "OSError")
       ELSE rmtree_if_exists(world, victim)

\* the loop over sorted(ids), from SortedIds[i] on
RECURSIVE PruneEach(_, _, _, _)
PruneEach(world, base, ids, i) ==
    IF i > Len(SortedIds) THEN Done(world)
    ELSE IF SortedIds[i] \notin ids THEN PruneEach(world, base, ids, i + 1)
    ELSE LET r == PruneOne(world, base, SortedIds[i])
         IN IF r.err # "none" THEN r
            ELSE PruneEach(r.node, base, ids, i + 1)

\* apply_prune_list without its `enabled` test
apply_prune_list_always(world, clone, secondary_clone_dirs, local, enabled, prune_file) ==
    LET lists == _collect_prune_lists(clone, secondary_clone_dirs, local, prune_file)
        skills == PruneEach(world, TargetPath \o <<"skills">>, lists.skills, 1)
    IN IF lists.sources = <<>> THEN Done(world)
       ELSE IF skills.err # "none" THEN skills
       ELSE PruneEach(skills.node, TargetPath \o <<"competencies">>, lists.comps, 1)

\* apply_prune_list: [node, err], node the file system afterwards
apply_prune_list(world, clone, secondary_clone_dirs, local, enabled, prune_file) ==
    LET lists == _collect_prune_lists(clone, secondary_clone_dirs, local, prune_file)
        skills == PruneEach(world, TargetPath \o <<"skills">>, lists.skills, 1)
    IN IF ~enabled THEN Done(world)
       ELSE IF lists.sources = <<>> THEN Done(world)
       ELSE IF skills.err # "none" THEN skills
       ELSE PruneEach(skills.node, TargetPath \o <<"competencies">>, lists.comps, 1)

---------------------------------------------------------------------------
(* Trees the scenarios start from *)

\* entry names used at every level of the generated trees: "docs" is one of
\* the names merge_install_from_clone excludes at the top level
EntryNames == {"skills", "docs"}

DirsOver(names, kids) ==
    {Dir(f) : f \in UNION {[S -> kids] : S \in SUBSET names}}

\* every tree of depth at most two over EntryNames whose files hold <<"raw", v>>
SmallTrees(v) ==
    DirsOver(EntryNames, {Raw(v)} \cup DirsOver(EntryNames, {Raw(v), EmptyDir}))

\* installation roots of depth at most two over EntryNames
InstalledTrees(v) ==
    DirsOver(EntryNames, {Raw(v)} \cup DirsOver(EntryNames, {Raw(v)}))

\* a snapshot (clone directory) whose package subtree .olaf is t
CloneOf(t) == Dir(".olaf" :> t)

\* snapshots holding <<"raw", v>>: with any small package subtree, or none
Snapshots(v) == {CloneOf(t) : t \in SmallTrees(v)} \cup {EmptyDir}

---------------------------------------------------------------------------
(* Scenario: two overlay merges into one installation root *)

\* the user's home directory beside the installation root
UserHome == Dir("documents" :> Dir("thesis.txt" :> Raw(0)))

DefaultArgs ==
    [clean_global |-> FALSE, no_preserve_my_competencies |-> FALSE,
     no_prune |-> FALSE, prune_file |-> <<>>]

\* the variables of main(), unused
NoMain ==
    /\ outside = UserHome
    /\ local_root = EmptyDir
    /\ args = DefaultArgs
    /\ secondary = <<>>
    /\ remote = <<>>
    /\ idx = 0
    /\ applied = <<>>
    /\ clock = 0
    /\ rewrote = FALSE

\* the variables of the state preserver's scenario, unused
NoPreserve ==
    /\ tmp = EmptyDir
    /\ preserve_root = "None"
    /\ restored = Missing
    /\ merges = 0
    /\ written = FALSE

InitMerge ==
    /\ pc = "merge_first"
    /\ target \in InstalledTrees(0)
    /\ snapA = Missing
    /\ snapB = Missing
    /\ before = Missing
    /\ raised = FALSE
    /\ NoPreserve
    /\ NoMain

MergeFirst ==
    /\ pc = "merge_first"
    /\ \E a \in Snapshots(1) : \E o \in merge_install_from_clone(a, target) :
          /\ snapA' = a
          /\ target' = o.node
          /\ raised' = (o.err # "none")
    /\ before' = target
    /\ pc' = "merge_second"
    /\ UNCHANGED <<snapB, preserveVars, mainVars>>

MergeSecond ==
    /\ pc = "merge_second"
    /\ \E b \in Snapshots(2) : \E o \in merge_install_from_clone(b, target) :
          /\ snapB' = b
          /\ target' = o.node
          /\ raised' = (raised \/ o.err # "none")
    /\ before' = target
    /\ pc' = "merged"
    /\ UNCHANGED <<snapA, preserveVars, mainVars>>

NextMerge == MergeFirst \/ MergeSecond

SpecMerge == InitMerge /\ [][NextMerge]_vars

---------------------------------------------------------------------------
(* Properties of the overlay merger *)

\* the package subtree of a snapshot
Pkg(clone) == Child(clone, ".olaf")

\* the file paths of a snapshot's package subtree that an overlay merge
\* copies: those whose top-level name is not excluded
MergedFilePaths(clone) ==
    {p \in FilePathsOf(Pkg(clone)) : Head(p) \notin ExcludeNames}

\* C3: after snapshot A and then snapshot B were merged into the same
\* installation root, every merged file path present in both holds B's
\* content, and every merged file path present in only one of them holds
\* that snapshot's content.
C3_LastAppliedWins ==
    pc = "merged" =>
        \A p \in MergedFilePaths(snapA) \cup MergedFilePaths(snapB) :
            /\ p \in MergedFilePaths(snapB) =>
                  Lookup(target, p) = Lookup(Pkg(snapB), p)
            /\ (p \in MergedFilePaths(snapA)
                  /\ ~NodeExists(Lookup(Pkg(snapB), p))) =>
                  Lookup(target, p) = Lookup(Pkg(snapA), p)

\* C4: an overlay merge never deletes.  Every path of the installation root
\* that is not a path of the snapshot's package subtree is still there with
\* the same content after merge_install_from_clone, and nothing changes
\* under an excluded top-level name (docs, tools).
C4_MergeNeverDeletes ==
    pc = "merge_second" =>
        /\ \A p \in PathsOf(before) \ PathsOf(Pkg(snapA)) :
              LET old == Lookup(before, p)
                  new == Lookup(target, p)
              IN /\ new.kind = old.kind
                 /\ new.data = old.data
        /\ \A name \in ExcludeNames : Child(target, name) = Child(before, name)

---------------------------------------------------------------------------
(* Scenario: preserve, overlay merges, restore, restore again *)

MaxMerges == 2

SkillIds == {"s1", "s2"}

\* what the kernel manifest of an installation may hold
ManifestChoices ==
    {Manifest(<<>>), Manifest(<<"s1">>), Manifest(<<"s1", "s2">>),
     Raw(0), File(<<"json", 0>>)}

\* the kernel package directory: absent, without manifest, or with a
\* manifest, user files and a sub-directory
KernelChoices ==
    {Missing, Dir("notes.md" :> Raw(0))}
    \cup {Dir("competency-manifest.json" :> m) : m \in ManifestChoices}
    \cup {Dir("competency-manifest.json" :> m @@ "notes.md" :> Raw(0)
              @@ "prompts" :> Dir("p.md" :> Raw(0))) : m \in ManifestChoices}

SkillDirChoices == {Missing, Dir("SKILL.md" :> Raw(0))}

\* directory entries without the absent ones
Present(c) == [x \in {y \in DOMAIN c : NodeExists(c[y])} |-> c[x]]

\* installation roots with and without user state
KernelRoots ==
    {Dir("competencies" :> Dir(Present("my-competencies" :> k
                                        @@ "core" :> Dir("competency-manifest.json" :> Raw(0))))
         @@ "skills" :> Dir(Present("s1" :> a @@ "s2" :> b)))
        : k \in KernelChoices, a \in SkillDirChoices, b \in SkillDirChoices}

\* snapshots whose package subtree writes into the kernel package path and
\* into skill directories (as directories and as plain files), holding
\* <<"raw", v>>
OverlaySnapshots(v) ==
    {CloneOf(Dir(Present("competencies" :> c @@ "skills" :> s)))
        : c \in {Missing,
                 Dir("my-competencies" :> Raw(v)),
                 Dir("my-competencies" :>
                        Dir("competency-manifest.json" :> Manifest(<<"s2">>)
                            @@ "added.md" :> Raw(v)))},
          s \in {Missing,
                 Dir("s1" :> Raw(v)),
                 Dir("s1" :> Dir("SKILL.md" :> Raw(v) @@ "extra.md" :> Raw(v))),
                 Dir("s1" :> Dir("SKILL.md" :> Raw(v))
                     @@ "s2" :> Dir("SKILL.md" :> Dir("x" :> Raw(v))))}}
    \cup {EmptyDir}

\* the directories a bundle taken from installation root t holds: the
\* kernel package and the referenced skills that exist as directories
PreservedPaths(t) ==
    {KernelPath} \cup
    {SkillPath(sid) : sid \in
        {x \in ReferencedSkills(Lookup(t, KernelManifestPath)) :
            IsDir(Lookup(t, SkillPath(x)))}}

InitPreserve ==
    /\ pc = "preserve"
    /\ target \in KernelRoots
    /\ tmp = EmptyDir
    /\ preserve_root = "None"
    /\ snapA = Missing
    /\ snapB = Missing
    /\ before = Missing
    /\ restored = Missing
    /\ merges = 0
    /\ written = FALSE
    /\ raised = FALSE
    /\ NoMain

Preserve ==
    /\ pc = "preserve"
    /\ LET r == preserve_my_competencies(target, tmp)
       IN /\ tmp' = r.tmp
          /\ preserve_root' = r.root
          /\ raised' = (r.err # "none")
          /\ pc' = IF r.err # "none" THEN "raised" ELSE "merging"
    /\ before' = target
    /\ UNCHANGED <<target, snapA, snapB, restored, merges, written, mainVars>>

OverlayMerge ==
    /\ pc = "merging"
    /\ merges < MaxMerges
    /\ \E a \in OverlaySnapshots(merges + 1) :
          \E o \in merge_install_from_clone(a, target) :
             /\ target' = o.node
             /\ written' = (written \/ \E p \in PreservedPaths(before) :
                                          Lookup(o.node, p) # Lookup(before, p))
    /\ merges' = merges + 1
    /\ UNCHANGED <<pc, tmp, preserve_root, snapA, snapB, before, restored, raised,
                   mainVars>>

Restore ==
    /\ pc = "merging"
    /\ LET r == restore_my_competencies(target, tmp, preserve_root)
       IN /\ target' = r.node
          /\ restored' = r.node
          /\ raised' = (r.err # "none")
    /\ pc' = "restored"
    /\ UNCHANGED <<tmp, preserve_root, snapA, snapB, before, merges, written, mainVars>>

RestoreAgain ==
    /\ pc = "restored"
    /\ LET r == restore_my_competencies(target, tmp, preserve_root)
       IN /\ target' = r.node
          /\ raised' = (raised \/ r.err # "none")
    /\ pc' = "restored_twice"
    /\ UNCHANGED <<tmp, preserve_root, snapA, snapB, before, restored, merges, written,
                   mainVars>>

NextPreserve == Preserve \/ OverlayMerge \/ Restore \/ RestoreAgain

SpecPreserve == InitPreserve /\ [][NextPreserve]_vars

\* C2: preserve, then any number of overlay merges, then restore leaves the
\* kernel package subtree and every referenced skill directory that existed
\* at preserve time exactly as they were before preserve.
C2_PreserveMergeRestore ==
    (pc = "restored" /\ preserve_root # "None") =>
        /\ ~raised
        /\ \A p \in PreservedPaths(before) : Lookup(target, p) = Lookup(before, p)

\* C2 witness: a bundle was taken, two merges ran, one of them changed a
\* preserved directory, and the restore has run
C2_Witness ==
    /\ pc = "restored"
    /\ preserve_root # "None"
    /\ merges = 2
    /\ written
    /\ Cardinality(PreservedPaths(before)) > 1

\* C5: restore right after preserve, nothing in between, leaves the kernel
\* package subtree and every preserved skill directory as before preserve,
\* and a second restore of the same bundle changes nothing more.
C5_RoundTripIdempotent ==
    /\ (pc = "restored" /\ merges = 0 /\ preserve_root # "None") =>
          /\ ~raised
          /\ \A p \in PreservedPaths(before) : Lookup(target, p) = Lookup(before, p)
    /\ (pc = "restored_twice" /\ preserve_root # "None") =>
          /\ ~raised
          /\ target = restored

\* C5 witness: a bundle with a skill directory was restored twice with no
\* merge in between
C5_Witness ==
    /\ pc = "restored_twice"
    /\ merges = 0
    /\ preserve_root # "None"
    /\ Cardinality(PreservedPaths(before)) > 1

\* q is p or a path below p
IsPrefix(p, q) == Len(p) <= Len(q) /\ SubSeq(q, 1, Len(p)) = p

\* C35: restore_my_competencies changes only the kernel package path and
\* the skill directories the bundle holds.  Every path of the installation
\* root that is neither one of these, nor below one, nor a directory above
\* one is the same before and after a restore: what the overlays merged
\* since preserve wrote elsewhere stays, and so does a skill directory the
\* kernel manifest references that was not there at preserve time.
C35_RestoreFrame ==
    [][(pc' \in {"restored", "restored_twice"} /\ pc' # pc) =>
          LET skills == IF preserve_root = "None" THEN {}
                        ELSE DOMAIN Child(Child(tmp, preserve_root), "skills").ch
              touched == IF preserve_root = "None" THEN {}
                         ELSE {KernelPath} \cup {SkillPath(sid) : sid \in skills}
              Apart(p) == \A t \in touched : ~IsPrefix(t, p) /\ ~IsPrefix(p, t)
          IN \A p \in PathsOf(target) \cup PathsOf(target') :
                Apart(p) => Lookup(target', p) = Lookup(target, p)]_vars

\* a restore has put the bundle back, and the skill s2, which the kernel
\* manifest referenced at preserve time while no such directory existed, is
\* in the installation root as an overlay wrote it
C35_Witness ==
    /\ pc = "restored"
    /\ ~raised
    /\ preserve_root # "None"
    /\ written
    /\ "s2" \in ReferencedSkills(Lookup(before, KernelManifestPath))
    /\ ~NodeExists(Lookup(before, SkillPath("s2")))
    /\ "s2" \notin DOMAIN Child(Child(tmp, preserve_root), "skills").ch
    /\ IsDir(Lookup(target, SkillPath("s2")))

\* C20: with no kernel manifest in the installation root,
\* preserve_my_competencies returns the absent bundle, raises nothing, makes
\* no bundle directory and leaves the installation root as it is; and
\* restore_my_competencies given the absent bundle raises nothing and leaves
\* the installation root as it is, overlay content merged into the kernel
\* package path included.
C20_NothingToPreserve ==
    [][/\ (pc = "preserve" /\ ~NodeExists(Lookup(target, KernelManifestPath)))
            => /\ preserve_root' = "None"
               /\ ~raised'
               /\ target' = target
               /\ tmp' = tmp
               /\ pc' = "merging"
       /\ (pc' \in {"restored", "restored_twice"} /\ preserve_root = "None")
            => /\ target' = target
               /\ tmp' = tmp
               /\ ~raised']_vars

\* no manifest at preserve time, an overlay then wrote added.md into the
\* kernel package path, and it is there after the restore of the absent
\* bundle
C20_Witness ==
    /\ pc = "restored"
    /\ preserve_root = "None"
    /\ ~NodeExists(Lookup(before, KernelManifestPath))
    /\ tmp = EmptyDir
    /\ ~NodeExists(Lookup(before, KernelPath \o <<"added.md">>))
    /\ IsFile(Lookup(target, KernelPath \o <<"added.md">>))

---------------------------------------------------------------------------
(* main(): the prune step *)

CloneName == "haal_olaf_clone"

\* f"haal_olaf_clone_secondary_{idx}"
SecondaryCloneNames ==
    <<"haal_olaf_clone_secondary_1", "haal_olaf_clone_secondary_2",
      "haal_olaf_clone_secondary_3", "haal_olaf_clone_secondary_4">>

\* main()'s secondary_clone_dirs: the secondary clone directories that exist,
\* one candidate per registry entry
SecondaryCloneDirs(tmpdir, n) ==
    LET IsThere(name) == NodeExists(Child(tmpdir, name))
        names == SelectSeq(SubSeq(SecondaryCloneNames, 1, n), IsThere)
    IN [i \in DOMAIN names |-> Child(tmpdir, names[i])]

\* an exception other than RuntimeError leaves main() uncaught
Prune ==
    /\ pc = "prune"
    /\ LET r == apply_prune_list(World(target, outside), Child(tmp, CloneName),
                                 SecondaryCloneDirs(tmp, Len(secondary)),
                                 local_root, ~args.no_prune, args.prune_file)
       IN /\ target' = Lookup(r.node, TargetPath)
          /\ outside' = OutsideOf(r.node)
          /\ raised' = (r.err # "none")
          /\ pc' = IF r.err = "none" THEN "sanitize" ELSE "uncaught"
    /\ before' = target
    /\ UNCHANGED <<tmp, local_root, args, secondary, remote, idx, applied, clock,
                   rewrote, preserve_root, snapA, snapB, restored, merges, written>>

---------------------------------------------------------------------------
(* Scenario: the prune step on an installed root *)

MaxSecondaries == 2

SkillDir == Dir("SKILL.md" :> Raw(0))

\* installation roots with skills, competencies and a reference directory
PruneRoots ==
    {Dir("skills" :> Dir("s1" :> Dir("SKILL.md" :> Raw(0)
                                     @@ "scripts" :> Dir("a.py" :> Raw(0)))
                         @@ s2)
         @@ "competencies" :> Dir("c1" :> Dir("competency-manifest.json" :> Manifest(<<>>))
                                  @@ "my-competencies" :>
                                         Dir("competency-manifest.json" :> Manifest(<<"s1">>)))
         @@ "reference" :> Dir("competency-collections.json" :> Raw(0)))
     : s2 \in {"s2" :> SkillDir, "s2" :> Raw(0)}}

\* prune lists that name direct children of the two namespaces
PlainPruneDocs ==
    {Raw(0),
     PruneDoc(<<"s1">>, <<>>),
     PruneDoc(<<" s1 ", "">>, <<"c1">>),
     PruneDoc(<<"s2", "s9">>, <<"c9">>),
     PruneDoc(<<>>, <<"my-competencies">>)}

\* prune lists with identifiers that are paths
PathPruneDocs ==
    {PruneDoc(<<"../reference">>, <<>>),
     PruneDoc(<<"s1/scripts">>, <<>>),
     PruneDoc(<<>>, <<"/home/documents">>),
     PruneDoc(<<"..", "s2">>, <<"c1">>)}

\* a directory holding the entry `name` unless node n is Missing
Holding(name, n) == IF NodeExists(n) THEN name :> n ELSE NoEntries

\* a clone directory with the prune list n (or none, for Missing) at
\* reference/<file>
CloneWithPruneList(file, n) ==
    Dir(".olaf" :> Dir("skills" :> Dir("s1" :> SkillDir))
        @@ "reference" :> Dir(Holding(file, n)))

\* temp directories with the seed clone and clone directories of n secondaries
RECURSIVE TmpWithSecondaries(_, _)
TmpWithSecondaries(tmpdir, n) ==
    IF n = 0 THEN {tmpdir}
    ELSE UNION {{t, Dir(WithEntry(t.ch, SecondaryCloneNames[n],
                                  CloneWithPruneList("prune-list.json", Missing))),
                    Dir(WithEntry(t.ch, SecondaryCloneNames[n],
                                  CloneWithPruneList("prune-list.json",
                                                     PruneDoc(<<"s2">>, <<>>))))}
                : t \in TmpWithSecondaries(tmpdir, n - 1)}

PruneLocalRoots ==
    {Dir("my-prune.json" :> PruneDoc(<<"s1">>, <<>>)
         @@ Holding("reference", lower) @@ Holding("Reference", upper))
     : lower \in {Missing, Dir("olaf-prune-list.json" :> PruneDoc(<<>>, <<"c1">>))},
       upper \in {Missing, Dir("olaf-prune-list.json" :> PruneDoc(<<"s2">>, <<>>))}}

PruneFileChoices ==
    {<<>>, <<"my-prune.json">>, <<"Reference", "olaf-prune-list.json">>,
     <<"no-such-file.json">>}

InitPrune ==
    /\ pc = "prune"
    /\ target \in PruneRoots
    /\ outside = UserHome
    /\ \E n \in 0..MaxSecondaries :
          /\ secondary = [i \in 1..n |-> <<"org/x", "main">>]
          /\ \E doc \in PlainPruneDocs \cup PathPruneDocs \cup {Missing} :
                tmp \in TmpWithSecondaries(
                           Dir(CloneName :> CloneWithPruneList("olaf-prune-list.json", doc)), n)
    /\ local_root \in PruneLocalRoots
    /\ \E np \in BOOLEAN, pf \in PruneFileChoices :
          args = [DefaultArgs EXCEPT !.no_prune = np, !.prune_file = pf]
    /\ remote = <<>>
    /\ idx = 0
    /\ applied = <<>>
    /\ clock = 0
    /\ rewrote = FALSE
    /\ preserve_root = "None"
    /\ snapA = Missing
    /\ snapB = Missing
    /\ before = target
    /\ restored = Missing
    /\ merges = 0
    /\ written = FALSE
    /\ raised = FALSE

NextPrune == Prune

SpecPrune == InitPrune /\ [][NextPrune]_vars

---------------------------------------------------------------------------
(* Properties of the prune step *)

\* the prune lists of every file the prune step can discover: the explicit
\* file, and the two candidate files of the seed clone, of each secondary
\* clone directory and of the local root
DiscoveredPruneLists ==
    LET secs == SecondaryCloneDirs(tmp, Len(secondary))
        roots == {Child(tmp, CloneName), local_root} \cup {secs[i] : i \in DOMAIN secs}
        files == {Lookup(r, PruneListPaths[k]) : r \in roots, k \in 1..2}
                 \cup (IF args.prune_file # <<>>
                       THEN {Lookup(local_root, args.prune_file)} ELSE {})
    IN {_load_prune_list_from_file(f) : f \in {g \in files : IsFile(g)}}

\* an identifier that names a direct child of a namespace
PlainId(id) == Segments(id) = <<id>> /\ id \notin {".", ".."}

\* node `after` is node `bef` with some of its entries removed whole
OnlyEntriesRemoved(bef, after) ==
    IF IsDir(bef)
    THEN /\ IsDir(after)
         /\ DOMAIN after.ch \subseteq DOMAIN bef.ch
         /\ \A name \in DOMAIN after.ch : after.ch[name] = bef.ch[name]
    ELSE after = bef

\* C6: the prune step deletes only direct children of <target>/skills and
\* <target>/competencies: whatever the prune lists hold, the rest of the
\* installation root and everything outside it is left unchanged.
C6_PruneStaysInNamespaces ==
    pc # "prune" =>
        /\ outside = UserHome
        /\ IsDir(target)
        /\ DOMAIN target.ch = DOMAIN before.ch
        /\ \A name \in DOMAIN before.ch :
              IF name \in {"skills", "competencies"}
              THEN OnlyEntriesRemoved(before.ch[name], target.ch[name])
              ELSE target.ch[name] = before.ch[name]

\* C7: when pruning is enabled and returns, every identifier of every
\* discovered prune list that names a direct child of its namespace is
\* deleted: no directory of that name is left.
C7_PruneIsUnionOfSources ==
    (pc # "prune" /\ ~args.no_prune /\ ~raised) =>
        \A l \in DiscoveredPruneLists :
            /\ \A id \in l[1] :
                  PlainId(id) => ~IsDir(Lookup(target, <<"skills", id>>))
            /\ \A id \in l[2] :
                  PlainId(id) => ~IsDir(Lookup(target, <<"competencies", id>>))

\* C23: an identifier of the merged prune set that matches no directory is
\* skipped without error and without effect on the others.  The prune step
\* ends as it would with the merged set reduced to the identifiers that
\* match a directory.  When each of those names a direct child of its
\* namespace, the step returns, the run goes on to the normalize step, and
\* no directory named by the merged set is left.
C23_MissingIdSkipped ==
    (pc # "prune" /\ ~args.no_prune) =>
        LET world == World(before, UserHome)
            lists == _collect_prune_lists(Child(tmp, CloneName),
                                          SecondaryCloneDirs(tmp, Len(secondary)),
                                          local_root, args.prune_file)
            skills_dir == TargetPath \o <<"skills">>
            comps_dir == TargetPath \o <<"competencies">>
            Matches(base, id) ==
                LET victim == Resolve(world, base, Segments(id))
                IN victim # NoPath /\ IsDir(Lookup(world, victim))
            found_skills == {id \in lists.skills : Matches(skills_dir, id)}
            found_comps == {id \in lists.comps : Matches(comps_dir, id)}
            s == PruneEach(world, skills_dir, found_skills, 1)
            r == IF s.err # "none" THEN s
                 ELSE PruneEach(s.node, comps_dir, found_comps, 1)
        IN /\ lists.sources # <<>> =>
                 /\ World(target, outside) = r.node
                 /\ raised <=> r.err # "none"
           /\ (\A id \in found_skills \cup found_comps : PlainId(id)) =>
                 /\ ~raised
                 /\ pc = "sanitize"
                 /\ \A id \in lists.skills : ~IsDir(Lookup(target, <<"skills", id>>))
                 /\ \A id \in lists.comps : ~IsDir(Lookup(target, <<"competencies", id>>))

\* the merged set named the skills s2, which is a file, and s9, which does
\* not exist, and the competency c1, which was deleted after they were
\* skipped
C23_Witness ==
    /\ pc = "sanitize"
    /\ ~raised
    /\ ~args.no_prune
    /\ LET lists == _collect_prune_lists(Child(tmp, CloneName),
                                         SecondaryCloneDirs(tmp, Len(secondary)),
                                         local_root, args.prune_file)
       IN /\ {"s2", "s9"} \subseteq lists.skills
          /\ "c1" \in lists.comps
    /\ IsFile(Lookup(before, <<"skills", "s2">>))
    /\ IsFile(Lookup(target, <<"skills", "s2">>))
    /\ IsDir(Lookup(before, <<"competencies", "c1">>))
    /\ ~NodeExists(Lookup(target, <<"competencies", "c1">>))

\* C32: the prune engine never removes user state.  After the prune step,
\* whichever prune lists were read, the kernel package subtree and every
\* skill directory the kernel manifest references are in the installation
\* root as they were before the step.
C32_PruneKeepsUserState ==
    pc \in {"sanitize", "uncaught"} =>
        /\ Lookup(target, KernelPath) = Lookup(before, KernelPath)
        /\ \A sid \in ReferencedSkills(Lookup(before, KernelManifestPath)) :
              Lookup(target, SkillPath(sid)) = Lookup(before, SkillPath(sid))

\* C8: with --no-prune the prune step deletes nothing: the installation
\* root and the directories beside it are as they were, and nothing is raised.
C8_NoPruneNoDeletion ==
    (pc # "prune" /\ args.no_prune) =>
        /\ target = before
        /\ outside = UserHome
        /\ ~raised

\* --no-prune was given where the prune lists name installed directories
C8_Witness ==
    /\ pc # "prune"
    /\ args.no_prune
    /\ apply_prune_list_always(World(before, UserHome), Child(tmp, CloneName),
                               SecondaryCloneDirs(tmp, Len(secondary)), local_root,
                               TRUE, args.prune_file).node # World(before, UserHome)

---------------------------------------------------------------------------
(* Configuration normalizer *)

\* JSON values of the config document: a value is a pair <<type, payload>>
Str(v) == <<"str", v>>
List(items) == <<"list", items>>
Object(fields) == <<"dict", fields>>
Other == <<"other", 0>>

\* a collection {"competencies": comps}
Collection(comps) == Object([competencies |-> comps])

\* the config document {"collections": colls, "metadata": meta}
CollectionsDoc(colls, meta) ==
    File(<<"collections", [collections |-> colls, metadata |-> meta]>>)

\* metadata {"lastUpdated": t}
Metadata(t) == Object([lastUpdated |-> t])

CollectionsPath == <<"reference", "competency-collections.json">>

\* global_competencies_dir / comp_id: joining "" gives the directory itself
CompetencyPath(comp_id) ==
    <<"competencies">> \o (IF comp_id = "" THEN <<>> ELSE <<comp_id>>)

\* an existence test that every identifier passes
exists_always(tgt, comp_id) == TRUE

exists_globally(tgt, comp_id) ==
    \/ NodeExists(Lookup(tgt, CompetencyPath(comp_id) \o <<"competency-manifest.json">>))
    \/ NodeExists(Lookup(tgt, CompetencyPath(comp_id)))

\* a rename table that renames nothing
NoReplacement(c) == c

\* replacements.get(c, c)
Replacement(c) ==
    CASE c = "my-prompts" -> "team-competencies"
      [] c = "olaf-olaf-admin" -> "haal-admin"
      [] c = "olaf-admin" -> "haal-admin"
      [] OTHER -> c

\* one turn of the loop over collections: the collection to append (keep
\* says whether one is appended) and whether `changed` was set
SanitizeCollection(tgt, coll) ==
    IF coll[1] # "dict" THEN [keep |-> FALSE, coll |-> coll, changed |-> FALSE]
    ELSE IF coll[2].competencies[1] # "list"
    THEN [keep |-> TRUE, coll |-> coll, changed |-> FALSE]
    ELSE LET comps == coll[2].competencies[2]
             IsStr(c) == c[1] = "str"
             strs == SelectSeq(comps, IsStr)
             normalized == [i \in DOMAIN strs |-> Str(Replacement(strs[i][2]))]
             Exists(c) == exists_globally(tgt, c[2])
             filtered == SelectSeq(normalized, Exists)
         IN [keep |-> filtered # <<>>,
             coll |-> Object([coll[2] EXCEPT !.competencies = List(filtered)]),
             changed |-> (filtered # comps) \/ (filtered = <<>>)]

\* a rewrite that builds the document anew from the collections and the
\* time stamp
SanitizedDocRebuilt(data, results, now) ==
    LET Kept(r) == r.keep
        kept == SelectSeq(results, Kept)
    IN CollectionsDoc(List([i \in DOMAIN kept |-> kept[i].coll]), Metadata(now))

\* the document written when something changed: data with its collections
\* replaced and metadata.lastUpdated set
SanitizedDoc(data, results, now) ==
    LET Kept(r) == r.keep
        kept == SelectSeq(results, Kept)
        meta == IF data.metadata[1] = "dict"
                THEN Object([data.metadata[2] EXCEPT !.lastUpdated = now])
                ELSE Metadata(now)
    IN File(<<"collections",
              [data EXCEPT !.collections = List([i \in DOMAIN kept |-> kept[i].coll]),
                           !.metadata = meta]>>)

\* sanitize_global_competency_collections without its `if not changed: return`
sanitize_always_writing(tgt, now) ==
    LET file == Lookup(tgt, CollectionsPath)
        unchanged == [node |-> tgt, err |-> "none", wrote |-> FALSE]
    IN IF ~IsFile(file) \/ file.data[1] = "raw" THEN unchanged
       ELSE IF file.data[1] = "json"
       THEN [node |-> tgt, err |-> "AttributeError", wrote |-> FALSE]
       ELSE IF file.data[1] # "collections" THEN unchanged
       ELSE IF file.data[2].collections[1] # "list" THEN unchanged
       ELSE LET data == file.data[2]
                colls == data.collections[2]
                results == [i \in DOMAIN colls |-> SanitizeCollection(tgt, colls[i])]
            IN [node |-> Put(tgt, CollectionsPath, SanitizedDoc(data, results, now)),
                err |-> "none", wrote |-> TRUE]

\* sanitize_global_competency_collections(target_dir) at time `now`:
\* [node, err, wrote], wrote telling whether the file was written
sanitize_global_competency_collections(tgt, now) ==
    LET file == Lookup(tgt, CollectionsPath)
        unchanged == [node |-> tgt, err |-> "none", wrote |-> FALSE]
    IN IF ~IsFile(file) \/ file.data[1] = "raw" THEN unchanged
       ELSE IF file.data[1] = "json"
       THEN [node |-> tgt, err |-> "AttributeError", wrote |-> FALSE]
       ELSE IF file.data[1] # "collections" THEN unchanged
       ELSE IF file.data[2].collections[1] # "list" THEN unchanged
       ELSE LET data == file.data[2]
                colls == data.collections[2]
                results == [i \in DOMAIN colls |-> SanitizeCollection(tgt, colls[i])]
            IN IF \A i \in DOMAIN results : ~results[i].changed THEN unchanged
               ELSE [node |-> Put(tgt, CollectionsPath, SanitizedDoc(data, results, now)),
                     err |-> "none", wrote |-> TRUE]

\* the ids of the collections of a config document: c.get("id") of every
\* object in the list, when it is a non-empty string
CollectionIdsOf(colls) ==
    {colls[i][2].id : i \in {j \in DOMAIN colls : /\ colls[j][1] = "dict"
                                                  /\ "id" \in DOMAIN colls[j][2]
                                                  /\ colls[j][2].id # ""}}

\* a sync that takes the seed's active collection whether or not the
\* installation root's document has a collection of that id
sync_active_unchecked(clone, tgt, now) ==
    LET seed_file == Lookup(clone, CollectionsPath)
        target_file == Lookup(tgt, CollectionsPath)
    IN IF \/ ~IsFile(seed_file) \/ ~IsFile(target_file)
          \/ seed_file.data[1] # "collections" \/ target_file.data[1] # "collections"
          \/ seed_file.data[2].metadata[1] # "dict"
          \/ "active_collection" \notin DOMAIN seed_file.data[2].metadata[2]
          \/ target_file.data[2].metadata[1] # "dict"
       THEN tgt
       ELSE Put(tgt, CollectionsPath,
                File(<<"collections",
                       [target_file.data[2] EXCEPT !.metadata =
                           Object([lastUpdated |-> now,
                                   active_collection |->
                                       Strip(seed_file.data[2].metadata[2].active_collection)])]>>))

\* sync_global_active_collection_from_seed(clone_dir, target_dir) at time
\* `now`: the installation root afterwards.  The seed's document is
\* clone_dir/reference/competency-collections.json.
sync_global_active_collection_from_seed(clone, tgt, now) ==
    LET seed_file == Lookup(clone, CollectionsPath)
        target_file == Lookup(tgt, CollectionsPath)
    IN IF ~IsFile(seed_file) \/ ~IsFile(target_file) THEN tgt
       ELSE IF seed_file.data[1] \in {"raw", "json"} \/ target_file.data[1] \in {"raw", "json"}
       THEN tgt
       ELSE IF seed_file.data[1] # "collections" \/ seed_file.data[2].metadata[1] # "dict"
       THEN tgt
       ELSE LET seed_meta == seed_file.data[2].metadata[2]
                seed_active == IF "active_collection" \in DOMAIN seed_meta
                               THEN Strip(seed_meta.active_collection) ELSE ""
            IN IF seed_active = "" THEN tgt
               ELSE IF target_file.data[1] # "collections"
                       \/ target_file.data[2].collections[1] # "list"
               THEN tgt
               ELSE LET target_data == target_file.data[2]
                        target_meta == IF target_data.metadata[1] = "dict"
                                       THEN target_data.metadata[2]
                                       ELSE <<>>
                    IN IF seed_active \notin CollectionIdsOf(target_data.collections[2])
                       THEN tgt
                       ELSE IF /\ "active_collection" \in DOMAIN target_meta
                               /\ target_meta.active_collection = seed_active
                       THEN tgt
                       ELSE Put(tgt, CollectionsPath,
                                File(<<"collections",
                                       [target_data EXCEPT !.metadata =
                                           Object([k \in (DOMAIN target_meta)
                                                          \cup {"active_collection", "lastUpdated"} |->
                                                      IF k = "active_collection" THEN seed_active
                                                      ELSE IF k = "lastUpdated" THEN now
                                                      ELSE target_meta[k]])]>>))

---------------------------------------------------------------------------
(* main(): the normalize step *)

Sanitize ==
    /\ pc = "sanitize"
    /\ LET r == sanitize_global_competency_collections(target, clock)
       IN /\ target' = r.node
          /\ rewrote' = r.wrote
          /\ raised' = (r.err # "none")
          /\ pc' = IF r.err = "none" THEN "tools" ELSE "uncaught"
    /\ before' = target
    /\ clock' = clock + 1
    /\ UNCHANGED <<outside, tmp, local_root, args, secondary, remote, idx, applied,
                   preserve_root, snapA, snapB, restored, merges, written>>

---------------------------------------------------------------------------
(* Scenario: the normalize step, run twice on one installation root *)

MaxCollections == 2

\* the "competencies" lists of the generated collections
CompetencyLists ==
    {<<>>,
     <<Str("core")>>,
     <<Str("olaf-admin")>>,
     <<Str("my-prompts")>>,
     <<Str("olaf-olaf-admin")>>,
     <<Str("gone")>>,
     <<Str("core"), Str("gone")>>,
     <<Str("olaf-admin"), Str("haal-admin")>>,
     <<Str("core"), Other>>,
     <<Str("notes.txt")>>,
     <<Str("")>>}

CollectionChoices ==
    {Collection(List(l)) : l \in CompetencyLists} \cup {Collection(Other), Other}

RECURSIVE SeqsUpTo(_, _)
SeqsUpTo(S, n) ==
    IF n = 0 THEN {<<>>}
    ELSE LET shorter == SeqsUpTo(S, n - 1)
         IN shorter \cup {Append(q, x) : q \in shorter, x \in S}

\* what can be at reference/competency-collections.json
ConfigChoices ==
    {CollectionsDoc(List(colls), meta) :
        colls \in SeqsUpTo(CollectionChoices, MaxCollections),
        meta \in {Metadata(0), Other}}
    \cup {CollectionsDoc(Other, Metadata(0)), File(<<"json", 0>>), Raw(0),
          Manifest(<<>>), EmptyDir, Missing}
    \cup {File(<<"collections",
                 [collections |->
                     List([i \in DOMAIN lists |->
                              Object([id |-> <<"a", "b", "c">>[i],
                                      competencies |-> List(lists[i])])]),
                  metadata |-> Object([lastUpdated |-> 0, active_collection |-> "a"]),
                  version |-> "1.0"]>>) :
            lists \in SeqsUpTo(CompetencyLists, MaxCollections)}

\* the competencies directory of the generated installation roots
CompetencyDirChoices ==
    {Missing,
     Dir("core" :> Dir("competency-manifest.json" :> Manifest(<<>>))),
     Dir("core" :> Dir("competency-manifest.json" :> Manifest(<<>>))
         @@ "haal-admin" :> EmptyDir
         @@ "notes.txt" :> Raw(0)),
     Dir("olaf-admin" :> EmptyDir
         @@ "olaf-olaf-admin" :> EmptyDir
         @@ "team-competencies" :> EmptyDir)}

SanitizeRoots ==
    {Dir(Holding("competencies", comps) @@ "reference" :> Dir(Holding("competency-collections.json", config)))
     : comps \in CompetencyDirChoices, config \in ConfigChoices}

InitSanitize ==
    /\ pc = "sanitize"
    /\ target \in SanitizeRoots
    /\ before = target
    /\ clock = 1
    /\ rewrote = FALSE
    /\ raised = FALSE
    /\ outside = UserHome
    /\ tmp = EmptyDir
    /\ local_root = EmptyDir
    /\ args = DefaultArgs
    /\ secondary = <<>>
    /\ remote = <<>>
    /\ idx = 0
    /\ applied = <<>>
    /\ preserve_root = "None"
    /\ snapA = Missing
    /\ snapB = Missing
    /\ restored = Missing
    /\ merges = 0
    /\ written = FALSE

\* the normalize step of the next run of the installer, the installation
\* root being as the first run left it
SanitizeAgain ==
    /\ pc = "tools"
    /\ LET r == sanitize_global_competency_collections(target, clock)
       IN /\ target' = r.node
          /\ rewrote' = r.wrote
          /\ raised' = (r.err # "none")
    /\ pc' = "sanitized_twice"
    /\ before' = target
    /\ clock' = clock + 1
    /\ UNCHANGED <<outside, tmp, local_root, args, secondary, remote, idx, applied,
                   preserve_root, snapA, snapB, restored, merges, written>>

NextSanitize == Sanitize \/ SanitizeAgain

SpecSanitize == InitSanitize /\ [][NextSanitize]_vars

---------------------------------------------------------------------------
(* Properties of the normalize step *)

\* the collections of the config document in the installation root that
\* have a "competencies" list
ListedCollections ==
    LET file == Lookup(target, CollectionsPath)
        colls == file.data[2].collections[2]
    IN IF IsFile(file) /\ file.data[1] = "collections"
          /\ file.data[2].collections[1] = "list"
       THEN {colls[i][2].competencies[2] :
                i \in {j \in DOMAIN colls : /\ colls[j][1] = "dict"
                                            /\ colls[j][2].competencies[1] = "list"}}
       ELSE {}

\* C9: after the normalize step returns, every identifier a collection
\* lists is a string that names a competency directory present under
\* <target>/competencies, and no collection lists nothing.
C9_ListedCompetenciesExist ==
    pc = "tools" =>
        \A comps \in ListedCollections :
            /\ comps # <<>>
            /\ \A i \in DOMAIN comps :
                  /\ comps[i][1] = "str"
                  /\ comps[i][2] # ""
                  /\ IsDir(Lookup(target, <<"competencies", comps[i][2]>>))

\* C10: a second normalize step on the installation root the first one left
\* changes nothing: the file is not written and the root is as it was.
C10_SanitizeIdempotent ==
    pc = "sanitized_twice" => (target = before /\ ~rewrote)

\* the second step ran after a first one that rewrote the document
C10_Witness ==
    /\ pc = "sanitized_twice"
    /\ ~raised
    /\ LET file == Lookup(target, CollectionsPath)
       IN /\ IsFile(file)
          /\ file.data[1] = "collections"
          /\ file.data[2].metadata = Metadata(1)
          /\ file.data[2].collections[2] # <<>>

\* the legacy identifiers of the rename table
LegacyIds == {"my-prompts", "olaf-olaf-admin", "olaf-admin"}

\* the string identifiers the collections of the config document of `root`
\* list
ListedIds(root) ==
    LET file == Lookup(root, CollectionsPath)
        colls == file.data[2].collections[2]
        lists == {j \in DOMAIN colls : /\ colls[j][1] = "dict"
                                       /\ colls[j][2].competencies[1] = "list"}
        Strings(comps) == {comps[i][2] : i \in {k \in DOMAIN comps : comps[k][1] = "str"}}
    IN IF IsFile(file) /\ file.data[1] = "collections"
          /\ file.data[2].collections[1] = "list"
       THEN UNION {Strings(colls[j][2].competencies[2]) : j \in lists}
       ELSE {}

\* C11: the rename is applied before the existence filter.  After the
\* normalize step no collection lists a legacy identifier that a collection
\* listed before, whether or not a directory with the legacy name exists;
\* its current name is listed afterwards exactly when the current name
\* exists under <target>/competencies.
C11_RenameBeforeFilter ==
    (pc = "tools" /\ ~raised) =>
        \A c \in ListedIds(before) \cap LegacyIds :
            /\ c \notin ListedIds(target)
            /\ NodeExists(Lookup(before, CompetencyPath(Replacement(c))))
                  => Replacement(c) \in ListedIds(target)
            /\ ~NodeExists(Lookup(before, CompetencyPath(Replacement(c))))
                  => Replacement(c) \notin ListedIds(target)

\* the step renamed my-prompts, whose directory does not exist, to the
\* existing team-competencies, and dropped olaf-admin, whose directory
\* exists while that of its current name does not
C11_Witness ==
    /\ pc = "tools"
    /\ ~raised
    /\ {"my-prompts", "olaf-admin"} \subseteq ListedIds(before)
    /\ ~NodeExists(Lookup(before, CompetencyPath("my-prompts")))
    /\ "team-competencies" \in ListedIds(target)
    /\ NodeExists(Lookup(before, CompetencyPath("olaf-admin")))
    /\ ~NodeExists(Lookup(before, CompetencyPath("haal-admin")))
    /\ "haal-admin" \notin ListedIds(target)

\* C21: the normalize step rewrites the config document exactly when it
\* changed a group (a collection that is an object with a "competencies"
\* list): an identifier of the group was renamed or filtered out, or the
\* group was dropped for listing nothing.  When nothing changed the
\* installation root, the document and its lastUpdated included, is as it
\* was.  When something changed only the document differs: its groups list
\* the renamed identifiers that exist, in their order, the groups left empty
\* are gone, lastUpdated is the time of the step, and every other field of
\* the document, of its metadata and of its groups is as it was.
C21_RewriteIffChanged ==
    (pc = "tools" /\ ~raised) =>
        LET old == Lookup(before, CollectionsPath)
            new == Lookup(target, CollectionsPath)
            readable == /\ IsFile(old)
                        /\ old.data[1] = "collections"
                        /\ old.data[2].collections[1] = "list"
            colls == old.data[2].collections[2]
            IsGroup(c) == c[1] = "dict" /\ c[2].competencies[1] = "list"
            IsStr(c) == c[1] = "str"
            Listed(c) == NodeExists(Lookup(before, CompetencyPath(c[2])))
            Untouched(c) == /\ IsStr(c)
                            /\ c[2] \notin LegacyIds
                            /\ Listed(c)
            Current(comps) ==
                LET strs == SelectSeq(comps, IsStr)
                    renamed == [i \in DOMAIN strs |->
                                  IF strs[i][2] = "my-prompts" THEN Str("team-competencies")
                                  ELSE IF strs[i][2] \in LegacyIds THEN Str("haal-admin")
                                  ELSE strs[i]]
                IN SelectSeq(renamed, Listed)
            Stays(c) == /\ c[1] = "dict"
                        /\ IsGroup(c) => Current(c[2].competencies[2]) # <<>>
            groups == {j \in DOMAIN colls : IsGroup(colls[j])}
            changed == /\ readable
                       /\ \E j \in groups :
                             LET comps == colls[j][2].competencies[2]
                             IN \/ comps = <<>>
                                \/ \E i \in DOMAIN comps : ~Untouched(comps[i])
        IN /\ rewrote <=> changed
           /\ ~changed => target = before
           /\ changed =>
                 /\ Remove(target, CollectionsPath) = Remove(before, CollectionsPath)
                 /\ IsFile(new)
                 /\ new.data[1] = "collections"
                 /\ LET o == old.data[2]
                        n == new.data[2]
                        stay == SelectSeq(colls, Stays)
                    IN /\ DOMAIN n = DOMAIN o
                       /\ \A f \in DOMAIN o \ {"collections", "metadata"} : n[f] = o[f]
                       /\ n.metadata[1] = "dict"
                       /\ n.metadata[2].lastUpdated = clock - 1
                       /\ o.metadata[1] = "dict" =>
                             /\ DOMAIN n.metadata[2] = DOMAIN o.metadata[2]
                             /\ \A f \in DOMAIN o.metadata[2] \ {"lastUpdated"} :
                                   n.metadata[2][f] = o.metadata[2][f]
                       /\ n.collections[1] = "list"
                       /\ Len(n.collections[2]) = Len(stay)
                       /\ \A k \in DOMAIN stay :
                             LET was == stay[k][2]
                                 now == n.collections[2][k]
                             IN /\ now[1] = "dict"
                                /\ DOMAIN now[2] = DOMAIN was
                                /\ \A f \in DOMAIN was \ {"competencies"} :
                                      now[2][f] = was[f]
                                /\ now[2].competencies =
                                      IF IsGroup(stay[k])
                                      THEN List(Current(was.competencies[2]))
                                      ELSE was.competencies

\* the step rewrote a document that has a version, an active collection and
\* two groups with ids: the first group was dropped, the second kept with
\* its identifier renamed
C21_Witness ==
    /\ pc = "tools"
    /\ ~raised
    /\ rewrote
    /\ LET old == Lookup(before, CollectionsPath)
           new == Lookup(target, CollectionsPath)
       IN /\ IsFile(old)
          /\ old.data[1] = "collections"
          /\ "version" \in DOMAIN old.data[2]
          /\ Len(old.data[2].collections[2]) = 2
          /\ old.data[2].collections[2][2][2].competencies = List(<<Str("my-prompts")>>)
          /\ new.data[2].version = "1.0"
          /\ new.data[2].metadata[2].active_collection = "a"
          /\ new.data[2].metadata[2].lastUpdated = 1
          /\ new.data[2].collections =
                List(<<Object([id |-> "b",
                               competencies |-> List(<<Str("team-competencies")>>)])>>)

---------------------------------------------------------------------------
(* Registry resolver and remote fetcher *)

\* the registry document {"secondary-repos": items}
RegistryDoc(items) == File(<<"registry", items>>)

\* parse_repo_branch(spec) on the registry entries of the model: strip, split
\* at the first "@", branch "main" when it is missing or blank; a blank
\* entry raises ValueError, and nothing checks the part before the "@"
parse_repo_branch(spec) ==
    CASE spec = "org/x@v1" -> [ok |-> TRUE, repo |-> "org/x", branch |-> "v1"]
      [] spec = " org/x @ v1 " -> [ok |-> TRUE, repo |-> "org/x", branch |-> "v1"]
      [] spec = "org/y" -> [ok |-> TRUE, repo |-> "org/y", branch |-> "main"]
      [] spec = "org/y@" -> [ok |-> TRUE, repo |-> "org/y", branch |-> "main"]
      [] spec = "  " -> [ok |-> FALSE, repo |-> "", branch |-> ""]
      [] spec = "@v1" -> [ok |-> TRUE, repo |-> "", branch |-> "v1"]
      [] OTHER -> [ok |-> TRUE, repo |-> spec, branch |-> "main"]

\* _registry_path_in_clone(clone_dir)
_registry_path_in_clone(clone) ==
    IF IsFile(Child(clone, "_olaf-registry.json"))
    THEN <<"_olaf-registry.json">> ELSE <<"olaf-registry.json">>

\* a resolver that gives up on the whole list at the first entry that does
\* not parse
load_registry_all_or_nothing(clone) ==
    LET file == Lookup(clone, _registry_path_in_clone(clone))
        none == [entries |-> <<>>, err |-> "none"]
    IN IF ~IsFile(file) \/ file.data[1] # "registry" THEN none
       ELSE IF file.data[2][1] # "list" THEN none
       ELSE LET items == file.data[2][2]
            IN IF \E i \in DOMAIN items :
                     items[i][1] # "str" \/ ~parse_repo_branch(items[i][2]).ok
               THEN none
               ELSE [entries |-> [i \in DOMAIN items |->
                                    <<parse_repo_branch(items[i][2]).repo,
                                      parse_repo_branch(items[i][2]).branch>>],
                     err |-> "none"]

\* a resolver that also follows the registry files of the secondaries it
\* resolved, one level down
load_registry_transitive(clone) ==
    LET Entries(c) ==
            LET file == Lookup(c, _registry_path_in_clone(c))
            IN IF /\ IsFile(file)
                  /\ file.data[1] = "registry"
                  /\ file.data[2][1] = "list"
               THEN LET Valid(it) == it[1] = "str" /\ parse_repo_branch(it[2]).ok
                        valid == SelectSeq(file.data[2][2], Valid)
                    IN [i \in DOMAIN valid |->
                           <<parse_repo_branch(valid[i][2]).repo,
                             parse_repo_branch(valid[i][2]).branch>>]
               ELSE <<>>
        own == Entries(clone)
        Nested(e) == IF e \in DOMAIN remote THEN Entries(remote[e]) ELSE <<>>
    IN [entries |-> IF own = <<>> THEN <<>>
                    ELSE own \o Nested(own[Len(own)]),
        err |-> "none"]

\* load_registry_with_diagnostics(clone_dir): [entries, err]; data.get is
\* called outside the try block
load_registry_with_diagnostics(clone) ==
    LET file == Lookup(clone, _registry_path_in_clone(clone))
        none == [entries |-> <<>>, err |-> "none"]
    IN IF ~IsFile(file) \/ file.data[1] = "raw" THEN none
       ELSE IF file.data[1] = "json"
       THEN [entries |-> <<>>, err |-> "AttributeError"]
       ELSE IF file.data[1] # "registry" THEN none
       ELSE IF file.data[2][1] # "list" THEN none
       ELSE LET items == file.data[2][2]
                Valid(it) == it[1] = "str" /\ parse_repo_branch(it[2]).ok
                valid == SelectSeq(items, Valid)
            IN [entries |-> [i \in DOMAIN valid |->
                                <<parse_repo_branch(valid[i][2]).repo,
                                  parse_repo_branch(valid[i][2]).branch>>],
                err |-> "none"]

\* a fetch that does not clear the destination first: git clone refuses a
\* destination that exists and is not an empty directory
clone_repo_to_without_clearing(repos, source, tmpdir, name) ==
    LET dst == Child(tmpdir, name)
    IN IF source \notin DOMAIN repos THEN Failed(tmpdir, "RuntimeError")
       ELSE IF NodeExists(dst) /\ dst # EmptyDir THEN Failed(tmpdir, "RuntimeError")
       ELSE Done(Dir(WithEntry(tmpdir.ch, name, repos[source])))

\* a fetch that reports nothing when git clone fails
clone_repo_to_quietly(repos, source, tmpdir, name) ==
    LET rm == rmtree_if_exists(tmpdir, <<name>>)
    IN IF rm.err # "none" THEN rm
       ELSE IF source \notin DOMAIN repos THEN Done(rm.node)
       ELSE Done(Dir(WithEntry(rm.node.ch, name, repos[source])))

\* clone_repo_to(repo, branch, dst), dst being the entry `name` of the temp
\* directory: [node, err], node the temp directory afterwards.  git clone
\* succeeds for the sources in `repos`.
clone_repo_to(repos, source, tmpdir, name) ==
    LET rm == rmtree_if_exists(tmpdir, <<name>>)
    IN IF rm.err # "none" THEN rm
       ELSE IF source \notin DOMAIN repos THEN Failed(rm.node, "RuntimeError")
       ELSE Done(Dir(WithEntry(rm.node.ch, name, repos[source])))

\* the effective seed: the built-in default repo and branch
PrimarySource == <<"haal-ai/haal-ide", "main">>

---------------------------------------------------------------------------
(* main(): from --clean-global to the restore of the user state.  A        *)
(* RuntimeError ends main() with exit code 1 (pc "exit_1"); any other      *)
(* exception is not caught (pc "uncaught").                                *)

scenarioVars == <<snapA, snapB, restored, merges, written>>

After(err, next) ==
    IF err = "none" THEN next
    ELSE IF err = "RuntimeError" THEN "exit_1" ELSE "uncaught"

\* if args.clean_global: ...  `restored` keeps the bundles that
\* restore_my_competencies was called with, in the order of the calls.
CleanGlobal ==
    /\ pc = "clean_global"
    /\ IF ~args.clean_global
       THEN /\ pc' = "clone_primary"
            /\ UNCHANGED <<target, tmp, preserve_root, raised, restored>>
       ELSE LET p == IF args.no_preserve_my_competencies
                     THEN [root |-> "None", tmp |-> tmp, err |-> "none"]
                     ELSE preserve_my_competencies(target, tmp)
                rm == rmtree_if_exists(World(target, outside), TargetPath)
                r == IF p.err # "none" THEN Failed(target, p.err)
                     ELSE IF rm.err # "none" THEN Failed(target, rm.err)
                     ELSE IF args.no_preserve_my_competencies THEN Done(Missing)
                     ELSE restore_my_competencies(EmptyDir, p.tmp, p.root)
            IN /\ target' = r.node
               /\ tmp' = p.tmp
               /\ preserve_root' = p.root
               /\ raised' = (r.err # "none")
               /\ pc' = After(r.err, "clone_primary")
               /\ restored' = IF /\ ~args.no_preserve_my_competencies
                                 /\ p.err = "none"
                                 /\ rm.err = "none"
                                 /\ p.root # "None"
                              THEN Append(restored, p.root) ELSE restored
    /\ before' = target
    /\ UNCHANGED <<outside, local_root, args, secondary, remote, idx, applied, clock,
                   rewrote, snapA, snapB, merges, written>>

\* clone_repo_to(repo=repo, branch=branch, dst=clone_dir)
ClonePrimary ==
    /\ pc = "clone_primary"
    /\ LET r == clone_repo_to(remote, PrimarySource, tmp, CloneName)
       IN /\ tmp' = r.node
          /\ raised' = (r.err # "none")
          /\ pc' = After(r.err, "preserve")
    /\ UNCHANGED <<target, outside, local_root, args, secondary, remote, idx, applied,
                   clock, rewrote, preserve_root, before, scenarioVars>>

\* preserve_root = None; if not args.clean_global and not
\* args.no_preserve_my_competencies: preserve_root, _ = preserve_my_competencies(..)
PreserveUserState ==
    /\ pc = "preserve"
    /\ LET p == IF ~args.clean_global /\ ~args.no_preserve_my_competencies
                THEN preserve_my_competencies(target, tmp)
                ELSE [root |-> "None", tmp |-> tmp, err |-> "none"]
       IN /\ preserve_root' = p.root
          /\ tmp' = p.tmp
          /\ raised' = (p.err # "none")
          /\ pc' = After(p.err, "registry")
    /\ UNCHANGED <<target, outside, local_root, args, secondary, remote, idx, applied,
                   clock, rewrote, before, scenarioVars>>

\* secondary, registry_msg = load_registry_with_diagnostics(clone_dir)
LoadRegistry ==
    /\ pc = "registry"
    /\ LET r == load_registry_with_diagnostics(Child(tmp, CloneName))
       IN /\ secondary' = r.entries
          /\ raised' = (r.err # "none")
          /\ pc' = After(r.err, IF r.entries = <<>> THEN "merge_primary"
                                ELSE "secondaries")
    /\ idx' = 1
    /\ UNCHANGED <<target, outside, tmp, local_root, args, remote, applied, clock,
                   rewrote, preserve_root, before, scenarioVars>>

\* secondary_to_apply = list(reversed(secondary))
secondary_to_apply == [i \in DOMAIN secondary |-> secondary[Len(secondary) + 1 - i]]

\* one turn of the loop over secondary_to_apply: clone, then merge; an
\* exception of the merge is caught and the secondary skipped
ApplySecondary ==
    /\ pc = "secondaries"
    /\ LET c == clone_repo_to(remote, secondary_to_apply[idx], tmp,
                              SecondaryCloneNames[idx])
           next == IF idx = Len(secondary) THEN "merge_primary" ELSE "secondaries"
       IN /\ tmp' = c.node
          /\ IF c.err # "none"
             THEN /\ pc' = After(c.err, next)
                  /\ raised' = TRUE
                  /\ UNCHANGED <<target, applied>>
             ELSE \E o \in merge_install_from_clone(
                               Child(c.node, SecondaryCloneNames[idx]), target) :
                     /\ target' = o.node
                     /\ applied' = IF o.err = "none"
                                   THEN Append(applied, secondary_to_apply[idx])
                                   ELSE applied
                     /\ raised' = FALSE
                     /\ pc' = next
    /\ idx' = idx + 1
    /\ before' = target
    /\ UNCHANGED <<outside, local_root, args, secondary, remote, clock, rewrote,
                   preserve_root, scenarioVars>>

\* merge_install_from_clone(clone_dir=clone_dir, target_dir=target_dir)
MergePrimary ==
    /\ pc = "merge_primary"
    /\ \E o \in merge_install_from_clone(Child(tmp, CloneName), target) :
          /\ target' = o.node
          /\ applied' = IF o.err = "none" THEN Append(applied, PrimarySource)
                        ELSE applied
          /\ raised' = (o.err # "none")
          /\ pc' = After(o.err, "restore")
    /\ before' = target
    /\ UNCHANGED <<outside, tmp, local_root, args, secondary, remote, idx, clock,
                   rewrote, preserve_root, scenarioVars>>

\* if preserve_root is not None: restore_my_competencies(target_dir, preserve_root)
RestoreUserState ==
    /\ pc = "restore"
    /\ LET r == restore_my_competencies(target, tmp, preserve_root)
       IN /\ target' = r.node
          /\ raised' = (r.err # "none")
          /\ pc' = After(r.err, "prune")
    /\ restored' = IF preserve_root # "None" THEN Append(restored, preserve_root)
                   ELSE restored
    /\ before' = target
    /\ UNCHANGED <<outside, tmp, local_root, args, secondary, remote, idx, applied,
                   clock, rewrote, preserve_root, snapA, snapB, merges, written>>

\* install_minimal_tools(..) and the steps after it, up to `return 0`: each
\* of them either returns or raises (a RuntimeError from the index generation,
\* from rmtree_if_exists or from a missing competencies folder, or an OSError
\* from a copy).  Of these
\* steps the model keeps the outcome and what
\* sync_global_active_collection_from_seed writes to the config document,
\* which an OSError can come before or after; the tool, settings, index and
\* workspace files they write, and the kernel manifest the index generation
\* creates when there is none, are left out of the trees of the model; none
\* of them touches the temp directory or the collections of the config
\* document.
FinishInstall ==
    /\ pc = "tools"
    /\ \E err \in {"none", "RuntimeError", "OSError"} :
          \E synced \in (IF err = "OSError" THEN BOOLEAN ELSE {TRUE}) :
             /\ target' = IF synced
                           THEN sync_global_active_collection_from_seed(
                                    Child(tmp, CloneName), target, clock)
                           ELSE target
             /\ raised' = (err # "none")
             /\ pc' = After(err, "exit_0")
    /\ UNCHANGED <<outside, tmp, local_root, args, secondary, remote, idx,
                   applied, clock, rewrote, preserve_root, before, scenarioVars>>

---------------------------------------------------------------------------
(* A run of main() *)

\* package subtrees whose files hold <<"raw", v>>: a skill, a skill with a
\* top-level file and an excluded directory, and a directory called notes
SkillPackage(v) == Dir("skills" :> Dir("s1" :> Dir("SKILL.md" :> Raw(v))))

FullPackage(v) ==
    Dir("skills" :> Dir("s1" :> Dir("SKILL.md" :> Raw(v)))
        @@ "notes" :> Raw(v)
        @@ "docs" :> Dir("guide.md" :> Raw(v)))

NotesPackage(v) == Dir("notes" :> Dir("a.md" :> Raw(v)))

RegistryItems == {Str("org/x@v1"), Str("org/y")}

\* what the seed repository has as its registry file
RegistryChoices ==
    {RegistryDoc(List(items)) : items \in SeqsUpTo(RegistryItems, MaxSecondaries)}
    \cup {RegistryDoc(List(<<Other, Str(" org/x @ v1 ")>>)), RegistryDoc(Other),
          RegistryDoc(List(<<Str("org/y"), Other, Str("  "), Str("org/x@v1")>>)),
          RegistryDoc(List(<<Str("  ")>>)),
          File(<<"json", 0>>), Raw(0), Missing}

\* the seed repository: with or without a package subtree, a registry and a
\* prune list
SeedClones ==
    {Dir(Holding(".olaf", pkg) @@ Holding("_olaf-registry.json", reg)
         @@ "reference" :> Dir(Holding("olaf-prune-list.json", prune)))
     : pkg \in {SkillPackage(9), FullPackage(9), Missing},
       reg \in RegistryChoices,
       prune \in {Missing, PruneDoc(<<"s1">>, <<>>), Raw(0)}}

\* a secondary repository that has a registry file of its own
NestedRegistryClone ==
    Dir(".olaf" :> SkillPackage(2)
        @@ "_olaf-registry.json" :> RegistryDoc(List(<<Str("org/x@v1")>>)))

\* the repositories git can reach and what a clone of each holds
Remotes ==
    {Present(PrimarySource :> seed @@ <<"org/x", "v1">> :> x @@ <<"org/y", "main">> :> y)
     : seed \in SeedClones \cup {Missing},
       x \in {Missing, Dir("README.md" :> Raw(1)), CloneOf(FullPackage(1)),
              CloneOf(NotesPackage(1))},
       y \in {Missing, NestedRegistryClone, CloneOf(NotesPackage(2))}}

\* the installation root before the run: none, or an earlier installation
\* with user state
InstalledRoot ==
    Dir("competencies" :>
            Dir("core" :> Dir("competency-manifest.json" :> Manifest(<<>>))
                @@ "my-competencies" :>
                       Dir("competency-manifest.json" :> Manifest(<<"s1">>)))
        @@ "skills" :> Dir("s1" :> Dir("SKILL.md" :> Raw(0)))
        @@ "reference" :>
               Dir("competency-collections.json" :>
                      CollectionsDoc(List(<<Collection(List(<<Str("core"), Str("olaf-admin")>>))>>),
                                     Metadata(0))))

\* an earlier installation whose config document is not valid JSON
BrokenConfigRoot == Put(InstalledRoot, CollectionsPath, Raw(0))

Init ==
    /\ pc = "clean_global"
    /\ target \in {Missing, InstalledRoot, BrokenConfigRoot,
                   Dir(WithEntry(InstalledRoot.ch, "notes", EmptyDir))}
    /\ outside = UserHome
    /\ tmp = EmptyDir
    /\ local_root = Dir(".git" :> EmptyDir)
    /\ \E cg \in BOOLEAN, np \in BOOLEAN, no \in BOOLEAN :
          args = [DefaultArgs EXCEPT !.clean_global = cg,
                                     !.no_preserve_my_competencies = np,
                                     !.no_prune = no]
    /\ remote \in Remotes
    /\ secondary = <<>>
    /\ idx = 0
    /\ applied = <<>>
    /\ clock = 1
    /\ rewrote = FALSE
    /\ preserve_root = "None"
    /\ before = target
    /\ raised = FALSE
    /\ snapA = Missing
    /\ snapB = Missing
    /\ restored = <<>>
    /\ merges = 0
    /\ written = FALSE

Next ==
    \/ CleanGlobal
    \/ ClonePrimary
    \/ PreserveUserState
    \/ LoadRegistry
    \/ ApplySecondary
    \/ MergePrimary
    \/ RestoreUserState
    \/ Prune
    \/ Sanitize
    \/ FinishInstall

Spec == Init /\ [][Next]_vars

---------------------------------------------------------------------------
(* Properties of a run of main() *)

\* the clone directory of the i-th secondary applied
SecondaryClone(i) == Child(tmp, SecondaryCloneNames[i])

\* C1: when the primary overlay has just been merged, the overlays applied
\* are the secondaries that have a package subtree, in reverse declared
\* order, and then the primary; every merged file path of the primary
\* snapshot holds the primary's content, and a merged file path that only
\* one secondary snapshot supplies holds that secondary's content.
C1_OverlayOrder ==
    pc = "restore" =>
        LET n == Len(secondary)
            primary == Child(tmp, CloneName)
            HasPackage(source) == NodeExists(Pkg(remote[source]))
        IN /\ applied = SelectSeq(secondary_to_apply, HasPackage) \o <<PrimarySource>>
           /\ \A p \in MergedFilePaths(primary) :
                 Lookup(target, p) = Lookup(Pkg(primary), p)
           /\ \A i \in 1..n : \A p \in MergedFilePaths(SecondaryClone(i)) :
                 (/\ ~NodeExists(Lookup(Pkg(primary), p))
                  /\ \A j \in (1..n) \ {i} :
                        ~NodeExists(Lookup(Pkg(SecondaryClone(j)), p)))
                 => Lookup(target, p) = Lookup(Pkg(SecondaryClone(i)), p)

\* the snapshot of the secondary declared at position d of the registry
\* list: it is the (n + 1 - d)-th secondary applied
DeclaredClone(d) == SecondaryClone(Len(secondary) + 1 - d)

\* C12: after the merge phase, a merged file path that two secondaries
\* supply and the primary does not holds the content of the secondary
\* declared later in the registry list.
C12_LastDeclaredWins ==
    pc = "restore" =>
        \A d \in DOMAIN secondary : \A e \in DOMAIN secondary :
            d < e =>
                \A p \in MergedFilePaths(DeclaredClone(d)) \cap MergedFilePaths(DeclaredClone(e)) :
                    ~NodeExists(Lookup(Pkg(Child(tmp, CloneName)), p))
                        => Lookup(target, p) = Lookup(Pkg(DeclaredClone(e)), p)

\* the registry document of a snapshot declares no usable secondary: it is
\* absent, not valid JSON, not an object, has no list, or its list has no
\* entry that parses
NoUsableRegistry(clone) ==
    LET file == Lookup(clone, _registry_path_in_clone(clone))
    IN ~(/\ IsFile(file)
         /\ file.data[1] = "registry"
         /\ file.data[2][1] = "list"
         /\ \E i \in DOMAIN file.data[2][2] :
               /\ file.data[2][2][i][1] = "str"
               /\ parse_repo_branch(file.data[2][2][i][2]).ok)

\* C13: registry resolution never fails the run.  Whenever the registry
\* document of the primary snapshot declares no usable secondary, the step
\* that loads it raises nothing, yields the empty list, and the run goes on
\* to the merge of the primary.
C13_RegistryNeverFails ==
    [][(pc = "registry" /\ NoUsableRegistry(Child(tmp, CloneName)))
          => (pc' = "merge_primary" /\ secondary' = <<>> /\ ~raised')]_vars

\* the entries the registry document of the primary snapshot declares
DeclaredItems ==
    LET clone == Child(tmp, CloneName)
        file == Lookup(clone, _registry_path_in_clone(clone))
    IN IF IsFile(file) /\ file.data[1] = "registry" /\ file.data[2][1] = "list"
       THEN file.data[2][2] ELSE <<>>

\* the positions of the declared entries that parse
ParsingPositions ==
    {i \in DOMAIN DeclaredItems : /\ DeclaredItems[i][1] = "str"
                                   /\ parse_repo_branch(DeclaredItems[i][2]).ok}

\* the position of the k-th declared entry that parses
ParsingPosition(k) ==
    CHOOSE i \in ParsingPositions :
        Cardinality({j \in ParsingPositions : j < i}) = k - 1

\* the steps of main() after the registry was loaded
AfterRegistry == {"secondaries", "merge_primary", "restore", "prune", "sanitize", "tools"}

\* C14: registry resolution is order-preserving and skips bad entries one by
\* one.  Once the registry is loaded, the list of secondaries has one entry
\* for each declared entry that parses, in declaration order, each being the
\* repository and branch that entry parses to; and resolving the primary
\* snapshot again gives the same list.
C14_RegistrySubsequence ==
    pc \in AfterRegistry =>
        /\ Len(secondary) = Cardinality(ParsingPositions)
        /\ \A k \in DOMAIN secondary :
              LET parsed == parse_repo_branch(DeclaredItems[ParsingPosition(k)][2])
              IN secondary[k] = <<parsed.repo, parsed.branch>>
        /\ load_registry_with_diagnostics(Child(tmp, CloneName)) =
              [entries |-> secondary, err |-> "none"]

\* the registry was loaded from a list with a non-string and a blank entry
\* between two entries that parse
C14_Witness ==
    /\ pc = "secondaries"
    /\ idx = 1
    /\ DeclaredItems = <<Str("org/y"), Other, Str("  "), Str("org/x@v1")>>
    /\ secondary = <<<<"org/y", "main">>, <<"org/x", "v1">>>>

\* git can fetch the source and its snapshot has no package subtree
LacksPackage(source) ==
    source \in DOMAIN remote /\ ~NodeExists(Pkg(remote[source]))

\* C15: a snapshot without the package subtree is fatal for the primary and
\* skipped for a secondary.  The merge of a primary snapshot without .olaf
\* ends main() with exit code 1 and writes nothing; the turn of the loop for
\* a secondary snapshot without .olaf raises nothing, leaves the installation
\* root as it was, and the run goes on with the next secondary or, after
\* the last one, with the merge of the primary; a primary that merges is
\* the last overlay applied.
C15_MissingPackage ==
    [][/\ (pc = "merge_primary" /\ LacksPackage(PrimarySource))
            => (pc' = "exit_1" /\ target' = target)
       /\ (pc = "secondaries" /\ LacksPackage(secondary_to_apply[idx]))
            => /\ target' = target
               /\ ~raised'
               /\ idx' = idx + 1
               /\ pc' = IF idx = Len(secondary) THEN "merge_primary" ELSE "secondaries"
       /\ (pc = "merge_primary" /\ pc' = "restore")
            => (applied' # <<>> /\ applied'[Len(applied')] = PrimarySource)]_vars

\* the first secondary applied had no package subtree and was skipped; the
\* secondary after it and the primary were merged
C15_Witness ==
    /\ pc = "restore"
    /\ Len(secondary) = 2
    /\ LacksPackage(secondary_to_apply[1])
    /\ applied = <<secondary_to_apply[2], PrimarySource>>
    /\ Lookup(target, <<"skills", "s1", "SKILL.md">>) = Raw(9)

\* the files the prune step can discover, as DiscoveredPruneLists reads them
DiscoveredPruneFiles ==
    LET secs == SecondaryCloneDirs(tmp, Len(secondary))
        roots == {Child(tmp, CloneName), local_root} \cup {secs[i] : i \in DOMAIN secs}
        files == {Lookup(r, PruneListPaths[k]) : r \in roots, k \in 1..2}
                 \cup (IF args.prune_file # <<>>
                       THEN {Lookup(local_root, args.prune_file)} ELSE {})
    IN {g \in files : IsFile(g)}

\* a file that is present and is not valid JSON
Unparseable(n) == IsFile(n) /\ n.data[1] = "raw"

\* C16: a config document that is present but not parseable is fatal for the
\* normalize step, which ends the run with exit code 1; an unparseable
\* registry is read as the empty list and an unparseable prune list as an
\* empty prune list, and the run continues.
C16_MalformedDocuments ==
    [][/\ (pc = "sanitize" /\ Unparseable(Lookup(target, CollectionsPath)))
            => pc' = "exit_1"
       /\ (pc = "registry"
            /\ Unparseable(Lookup(Child(tmp, CloneName),
                                  _registry_path_in_clone(Child(tmp, CloneName)))))
            => (secondary' = <<>> /\ ~raised' /\ pc' = "merge_primary")
       /\ (pc = "prune" /\ ~args.no_prune /\ DiscoveredPruneFiles # {}
            /\ \A f \in DiscoveredPruneFiles : Unparseable(f))
            => (target' = target /\ ~raised' /\ pc' = "sanitize")]_vars

\* git clone of the source fails: the remote or the revision is not there
FetchFails(source) == source \notin DOMAIN remote

\* C17: a fetch failure of the primary or of any secondary ends main() with
\* exit code 1 and the installation root is as it was before the fetch, and
\* nothing is done after main() has ended; a run whose steps all succeed
\* ends with exit code 0.
C17_FetchFailureIsFatal ==
    [][/\ (pc = "clone_primary" /\ FetchFails(PrimarySource))
            => (pc' = "exit_1" /\ target' = target)
       /\ (pc = "secondaries" /\ FetchFails(secondary_to_apply[idx]))
            => (pc' = "exit_1" /\ target' = target)
       /\ pc \in {"exit_0", "exit_1"} => UNCHANGED vars
       /\ (pc = "tools" /\ ~raised') => pc' = "exit_0"
       /\ pc' = "exit_0" => (pc = "tools" /\ ~raised')]_vars

\* the fetch of the second secondary applied failed after the first one was
\* merged: main() ended with exit code 1 and the primary was never merged
C17_Witness ==
    /\ pc = "exit_1"
    /\ Len(secondary) = 2
    /\ idx = 3
    /\ FetchFails(secondary_to_apply[2])
    /\ applied = <<secondary_to_apply[1]>>
    /\ NodeExists(Child(tmp, CloneName))

\* the names main() gives its scratch directories in the temp directory:
\* the primary snapshot, the secondary snapshots, the preservation bundles
ScratchNames ==
    {CloneName}
    \cup {SecondaryCloneNames[i] : i \in DOMAIN SecondaryCloneNames}
    \cup {PreserveNames[i] : i \in DOMAIN PreserveNames}

\* C18: when main() has ended, with exit code 0 or with exit code 1, none of
\* the scratch directories it created is left in the temp directory.
C18_ScratchRemoved ==
    pc \in {"exit_0", "exit_1"} =>
        \A name \in ScratchNames : ~NodeExists(Child(tmp, name))

\* C25: in a run in which a bundle is created, with or without
\* --clean-global, the restore comes after the overlay merges: no merge of a
\* secondary or of the primary changes the installation root once a bundle
\* has been restored.
C25_RestoreAfterMerges ==
    [][(pc \in {"secondaries", "merge_primary"} /\ target' # target)
          => restored = <<>>]_vars

---------------------------------------------------------------------------
(* Scenario: the clean step of main() on installation roots with and
   without user state *)

InitClean ==
    /\ pc = "clean_global"
    /\ target \in KernelRoots \cup {Missing}
    /\ \E cg \in BOOLEAN, np \in BOOLEAN :
          args = [DefaultArgs EXCEPT !.clean_global = cg,
                                     !.no_preserve_my_competencies = np]
    /\ tmp \in {EmptyDir, Dir(PreserveNames[1] :> EmptyDir)}
    /\ before = target
    /\ restored = <<>>
    /\ preserve_root = "None"
    /\ outside = UserHome
    /\ local_root = EmptyDir
    /\ secondary = <<>>
    /\ remote = <<>>
    /\ idx = 0
    /\ applied = <<>>
    /\ clock = 0
    /\ rewrote = FALSE
    /\ raised = FALSE
    /\ snapA = Missing
    /\ snapB = Missing
    /\ merges = 0
    /\ written = FALSE

NextClean == CleanGlobal

SpecClean == InitClean /\ [][NextClean]_vars

\* C26: right after the clean step of a --clean-global run with
\* preservation enabled, the installation root holds the kernel package (the
\* my-competencies directory with its manifest) and every skill directory
\* the kernel manifest references that existed, each as it was before the
\* run, and nothing else.  With --no-preserve-my-competencies the step
\* removes the whole installation root.
C26_CleanKeepsUserState ==
    (pc = "clone_primary" /\ args.clean_global) =>
        IF args.no_preserve_my_competencies THEN target = Missing
        ELSE LET manifest == Lookup(before, KernelManifestPath)
                 kept == {sid \in ReferencedSkills(manifest) :
                             IsDir(Lookup(before, SkillPath(sid)))}
             IN NodeExists(manifest) =>
                   target =
                      Dir("competencies" :>
                              Dir("my-competencies" :> Lookup(before, KernelPath))
                          @@ (IF kept = {} THEN NoEntries
                              ELSE "skills" :>
                                      Dir([sid \in kept |->
                                              Lookup(before, SkillPath(sid))])))

\* the clean step kept the kernel package with the user's files and the
\* referenced skill s1, and removed the skill s2 and the core competency
C26_Witness ==
    /\ pc = "clone_primary"
    /\ args.clean_global
    /\ ~args.no_preserve_my_competencies
    /\ IsDir(Lookup(before, <<"skills", "s2">>))
    /\ IsDir(Lookup(before, <<"competencies", "core">>))
    /\ IsFile(Lookup(target, KernelPath \o <<"prompts", "p.md">>))
    /\ IsDir(Lookup(target, <<"skills", "s1">>))
    /\ ~NodeExists(Lookup(target, <<"skills", "s2">>))
    /\ ~NodeExists(Lookup(target, <<"competencies", "core">>))

---------------------------------------------------------------------------
(* Scenario: runs of main() in a temp directory that may hold the bundle of
   an earlier run *)

\* `snapA` keeps the temp directory as the run found it
InitBundle ==
    /\ pc = "clean_global"
    /\ target \in {Missing, InstalledRoot}
    /\ tmp \in {EmptyDir,
                Dir(PreserveNames[1] :>
                       Dir("competencies" :>
                              Dir("my-competencies" :> Dir("old.md" :> Raw(7)))
                           @@ "skills" :> EmptyDir))}
    /\ snapA = tmp
    /\ \E cg \in BOOLEAN, np \in BOOLEAN, no \in BOOLEAN :
          args = [DefaultArgs EXCEPT !.clean_global = cg,
                                     !.no_preserve_my_competencies = np,
                                     !.no_prune = no]
    /\ \E pkg \in {SkillPackage(9), Missing},
          reg \in {Missing, RegistryDoc(List(<<Str("org/x@v1"), Str("org/y")>>))},
          x \in {Missing, CloneOf(FullPackage(1)),
                 Dir("README.md" :> Raw(1)
                     @@ "reference" :>
                           Dir("olaf-prune-list.json" :> PruneDoc(<<>>, <<"core">>)))} :
          remote = Present(PrimarySource :>
                               Dir(Holding(".olaf", pkg)
                                   @@ Holding("_olaf-registry.json", reg)
                                   @@ "reference" :> EmptyDir)
                           @@ <<"org/x", "v1">> :> x
                           @@ <<"org/y", "main">> :> CloneOf(SkillPackage(2)))
    /\ outside = UserHome
    /\ local_root = Dir(".git" :> EmptyDir)
    /\ secondary = <<>>
    /\ idx = 0
    /\ applied = <<>>
    /\ clock = 1
    /\ rewrote = FALSE
    /\ preserve_root = "None"
    /\ before = target
    /\ raised = FALSE
    /\ snapB = Missing
    /\ restored = <<>>
    /\ merges = 0
    /\ written = FALSE

SpecBundle == InitBundle /\ [][Next]_vars

\* C27: every bundle created during a run of main() is consumed by exactly
\* one restore of that run.  A restore uses a bundle that a preserve of this
\* run created, never one the temp directory held before; no bundle is
\* restored twice; and once the run is past the merge phase and its restore,
\* every bundle created has been restored.
C27_BundleRestoredOnce ==
    LET created == {PreserveNames[k] : k \in DOMAIN PreserveNames}
                       \cap ((DOMAIN tmp.ch) \ (DOMAIN snapA.ch))
    IN /\ \A i \in DOMAIN restored : restored[i] \in created
       /\ \A i \in DOMAIN restored, j \in DOMAIN restored :
             i # j => restored[i] # restored[j]
       /\ pc \in {"prune", "sanitize", "tools", "exit_0"} =>
             \A b \in created : \E i \in DOMAIN restored : restored[i] = b

\* a run without --clean-global finished after restoring the bundle it
\* created beside the bundle of an earlier run
C27_Witness ==
    /\ pc = "exit_0"
    /\ ~args.clean_global
    /\ PreserveNames[1] \in DOMAIN snapA.ch
    /\ restored = <<PreserveNames[2]>>
    /\ applied # <<>>

RECURSIVE IsSubsequence(_, _)
IsSubsequence(s, t) ==
    IF s = <<>> THEN TRUE
    ELSE IF t = <<>> THEN FALSE
    ELSE IF Head(s) = Head(t) THEN IsSubsequence(Tail(s), Tail(t))
    ELSE IsSubsequence(s, Tail(t))

\* the sources the registry document of the primary snapshot declares, in
\* declaration order
DeclaredSources ==
    [k \in 1..Cardinality(ParsingPositions) |->
        LET parsed == parse_repo_branch(DeclaredItems[ParsingPosition(k)][2])
        IN <<parsed.repo, parsed.branch>>]

\* C29: secondary resolution is single-level.  The sources fetched and
\* merged in a run, and their order, are determined by the registry document
\* of the primary snapshot alone: the i-th secondary snapshot directory holds
\* the source declared at position n + 1 - i of that document, no other
\* secondary snapshot directory exists, and the overlays applied are, in
\* order, some of the declared sources from last to first and then the
\* primary; a registry document in a secondary snapshot adds, removes and
\* reorders nothing.
C29_SingleLevelResolution ==
    LET n == Len(DeclaredSources)
        order == [i \in 1..n |-> DeclaredSources[n + 1 - i]]
        fetched == {i \in DOMAIN SecondaryCloneNames : NodeExists(SecondaryClone(i))}
    IN /\ fetched \subseteq 1..n
       /\ \A i \in fetched : /\ order[i] \in DOMAIN remote
                              /\ SecondaryClone(i) = remote[order[i]]
       /\ IsSubsequence(applied, order \o <<PrimarySource>>)

\* the primary declared org/y alone; the snapshot of org/y has a registry
\* that declares org/x@v1, which git can fetch; org/y and the primary were
\* merged and nothing else was fetched
C29_Witness ==
    /\ pc = "restore"
    /\ DeclaredSources = <<<<"org/y", "main">>>>
    /\ SecondaryClone(1) = NestedRegistryClone
    /\ <<"org/x", "v1">> \in DOMAIN remote
    /\ ~NodeExists(SecondaryClone(2))
    /\ applied = <<<<"org/y", "main">>, PrimarySource>>

---------------------------------------------------------------------------
(* Scenario: fetches into destinations that earlier fetches left behind *)

MaxFetches == 3

\* the two destinations fetched into
FetchNames == <<CloneName, SecondaryCloneNames[1]>>

\* the sources asked for; org/gone is never there
FetchSources ==
    {PrimarySource, <<"org/x", "v1">>, <<"org/y", "main">>, <<"org/gone", "main">>}

\* the repositories git can reach once org/x is published
FetchRemote ==
    PrimarySource :> CloneOf(SkillPackage(9))
    @@ <<"org/x", "v1">> :> CloneOf(NotesPackage(1))
    @@ <<"org/y", "main">> :> Dir("README.md" :> Raw(2))

\* what an earlier fetch left at a destination: nothing, an empty directory,
\* the partial content of an interrupted git clone, a whole older snapshot
LeftoverChoices ==
    {Missing,
     EmptyDir,
     Dir(".git" :> Dir("index.lock" :> Raw(0))),
     Dir(".git" :> EmptyDir @@ ".olaf" :> FullPackage(7) @@ "old.txt" :> Raw(7))}

InitFetch ==
    /\ pc = "fetch"
    /\ \E a \in LeftoverChoices, b \in LeftoverChoices :
          tmp = Dir(Holding(FetchNames[1], a) @@ Holding(FetchNames[2], b))
    /\ remote \in {FetchRemote,
                    [s \in (DOMAIN FetchRemote) \ {<<"org/x", "v1">>} |-> FetchRemote[s]]}
    /\ target = Missing
    /\ outside = UserHome
    /\ local_root = EmptyDir
    /\ args = DefaultArgs
    /\ secondary = <<>>
    /\ idx = 0
    /\ applied = <<>>
    /\ clock = 0
    /\ rewrote = FALSE
    /\ preserve_root = "None"
    /\ before = Missing
    /\ raised = FALSE
    /\ snapA = Missing
    /\ snapB = Missing
    /\ restored = Missing
    /\ merges = 0
    /\ written = FALSE

\* clone_repo_to(repo, branch, dst) for some source and destination; `before`
\* keeps what was at the destination
Fetch ==
    /\ pc = "fetch"
    /\ merges < MaxFetches
    /\ \E source \in FetchSources, k \in DOMAIN FetchNames :
          LET r == clone_repo_to(remote, source, tmp, FetchNames[k])
          IN /\ tmp' = r.node
             /\ raised' = (r.err # "none")
             /\ applied' = <<source>>
             /\ idx' = k
             /\ before' = Child(tmp, FetchNames[k])
    /\ merges' = merges + 1
    /\ UNCHANGED <<pc, target, outside, local_root, args, secondary, remote, clock,
                   rewrote, preserve_root, snapA, snapB, restored, written>>

\* org/x@v1 becomes reachable
Publish ==
    /\ pc = "fetch"
    /\ <<"org/x", "v1">> \notin DOMAIN remote
    /\ remote' = FetchRemote
    /\ UNCHANGED <<pc, target, outside, tmp, local_root, args, secondary, idx, applied,
                   clock, rewrote, preserve_root, before, raised, snapA, snapB,
                   restored, merges, written>>

NextFetch == Fetch \/ Publish

SpecFetch == InitFetch /\ [][NextFetch]_vars

\* C19: clone_repo_to can be invoked again on a destination an earlier
\* fetch used.  Whatever that fetch left there, the fetch raises only when
\* git clone of its source fails, and after a fetch that succeeded the
\* destination is exactly the snapshot just fetched.
C19_FetchReinvocable ==
    [][merges' = merges + 1 =>
          /\ raised' <=> FetchFails(applied'[1])
          /\ ~raised' => Child(tmp', FetchNames[idx']) = remote[applied'[1]]]_vars

\* the third fetch, of org/x, succeeded on a destination that held the
\* partial content of an interrupted clone
C19_Witness ==
    /\ pc = "fetch"
    /\ merges = 3
    /\ ~raised
    /\ applied = << <<"org/x", "v1">> >>
    /\ before = Dir(".git" :> Dir("index.lock" :> Raw(0)))
    /\ Child(tmp, FetchNames[idx]) = CloneOf(NotesPackage(1))


---------------------------------------------------------------------------
(* Scenario: rmtree_if_exists on a path another process may hold a lock on *)

\* `for _ in range(5)`
Retries == 5

\* path.with_name(f"{path.name}_old_{ts}"), for the second the scenario runs in
BackupName == "haal_olaf_clone_old_1"

\* shutil.rmtree(path, onerror=_on_rm_error) on the tree `root`, `locked`
\* telling whether another process blocks the deletion: the outcomes.  A
\* failed rmtree has deleted entries until the first error.
rmtree(root, path, locked) ==
    LET n == Lookup(root, path)
        remnants == {n} \cup {Dir([name \in names |-> n.ch[name]]) :
                                 names \in (SUBSET DOMAIN n.ch) \ {{}}}
    IN IF IsFile(n) THEN {Failed(root, "OSError")}
       ELSE IF locked
       THEN {Failed(Put(root, path, left), "PermissionError") : left \in remnants}
       ELSE {Done(Remove(root, path))}

\* a retry loop that gives up after the first failure
AfterFailureRenaming(done) == "rm_rename"

\* where rmtree_if_exists goes after a PermissionError, `done` retries made
AfterFailure(done) == IF done < Retries THEN "rm_sleep" ELSE "rm_rename"

InitRemove ==
    /\ pc = "rm_first"
    /\ \E a \in {Missing, EmptyDir, Raw(0),
                  Dir("pack" :> Raw(0)),
                  Dir(".olaf" :> Dir("a" :> Raw(1)) @@ "pack" :> Raw(0))},
          b \in {Missing, EmptyDir, Raw(0)} :
          tmp = Dir(Holding(CloneName, a) @@ Holding(BackupName, b))
    /\ written \in BOOLEAN
    /\ rewrote \in BOOLEAN
    /\ idx = 0
    /\ merges = 0
    /\ applied = <<>>
    /\ raised = FALSE
    /\ clock = 1
    /\ target = Missing
    /\ outside = UserHome
    /\ local_root = EmptyDir
    /\ args = DefaultArgs
    /\ secondary = <<>>
    /\ remote = <<>>
    /\ preserve_root = "None"
    /\ before = Missing
    /\ snapA = Missing
    /\ snapB = Missing
    /\ restored = Missing

\* `if not path.exists(): return`, then the first shutil.rmtree
Delete ==
    /\ pc = "rm_first"
    /\ IF ~NodeExists(Lookup(tmp, <<CloneName>>))
       THEN /\ pc' = "rm_returned"
            /\ UNCHANGED <<tmp, applied>>
       ELSE /\ applied' = Append(applied, "rmtree")
            /\ \E r \in rmtree(tmp, <<CloneName>>, written) :
                  /\ tmp' = r.node
                  /\ pc' = CASE r.err = "none" -> "rm_returned"
                             [] r.err = "PermissionError" -> AfterFailure(0)
                             [] OTHER -> "uncaught"
    /\ UNCHANGED <<target, outside, local_root, args, secondary, remote, idx, clock,
                   rewrote, preserve_root, before, raised, snapA, snapB, restored,
                   merges, written>>

\* time.sleep(0.25)
Pause ==
    /\ pc = "rm_sleep"
    /\ merges' = merges + 1
    /\ applied' = Append(applied, "sleep")
    /\ pc' = "rm_retry"
    /\ UNCHANGED <<target, outside, tmp, local_root, args, secondary, remote, idx,
                   clock, rewrote, preserve_root, before, raised, snapA, snapB,
                   restored, written>>

\* the shutil.rmtree of one turn of the retry loop
Retry ==
    /\ pc = "rm_retry"
    /\ applied' = Append(applied, "rmtree")
    /\ idx' = idx + 1
    /\ \E r \in rmtree(tmp, <<CloneName>>, written) :
          /\ tmp' = r.node
          /\ pc' = CASE r.err = "none" -> "rm_returned"
                     [] r.err = "PermissionError" -> AfterFailure(idx + 1)
                     [] OTHER -> "uncaught"
    /\ UNCHANGED <<target, outside, local_root, args, secondary, remote, clock,
                   rewrote, preserve_root, before, raised, snapA, snapB, restored,
                   merges, written>>

\* the fallback: the backup of this second removed when it exists, then
\* path.rename(backup); any exception becomes a RuntimeError.  Renaming a
\* directory another process holds open fails or not with the platform.
RenameAside ==
    /\ pc = "rm_rename"
    /\ applied' = Append(applied, "rename")
    /\ LET backup == Lookup(tmp, <<BackupName>>)
           cleared == IF NodeExists(backup) THEN rmtree(tmp, <<BackupName>>, rewrote)
                      ELSE {Done(tmp)}
       IN \E c \in cleared, renamed \in (IF written THEN BOOLEAN ELSE {TRUE}) :
             IF c.err = "none" /\ renamed
             THEN /\ tmp' = Put(Remove(c.node, <<CloneName>>), <<BackupName>>,
                                Lookup(c.node, <<CloneName>>))
                  /\ pc' = "rm_returned"
                  /\ raised' = FALSE
             ELSE /\ tmp' = c.node
                  /\ pc' = "rm_raised"
                  /\ raised' = TRUE
    /\ UNCHANGED <<target, outside, local_root, args, secondary, remote, idx, clock,
                   rewrote, preserve_root, before, snapA, snapB, restored, merges,
                   written>>

\* the other process takes or drops its lock while the function runs
LockHolder ==
    /\ pc \in {"rm_first", "rm_sleep", "rm_retry", "rm_rename"}
    /\ IsDir(Lookup(tmp, <<CloneName>>))
    /\ written' = ~written
    /\ UNCHANGED <<pc, target, outside, tmp, local_root, args, secondary, remote, idx,
                   applied, clock, rewrote, preserve_root, before, raised, snapA,
                   snapB, restored, merges>>

NextRemove == Delete \/ Pause \/ Retry \/ RenameAside \/ LockHolder

SpecRemove == InitRemove /\ [][NextRemove]_vars

\* C22: rmtree_if_exists handles a blocked deletion in strict order.  What
\* it has done so far is always a beginning of: a deletion, then five times
\* a pause followed by a deletion, then the rename aside.  It raises its
\* error only at the end of that sequence, all six deletions and the rename
\* aside having failed, and when it returns the path does not exist.
C22_BlockedDeletionOrder ==
    LET pause_delete == <<"sleep", "rmtree">>
        order == <<"rmtree">> \o pause_delete \o pause_delete \o pause_delete
                     \o pause_delete \o pause_delete \o <<"rename">>
    IN /\ Len(applied) <= Len(order)
       /\ \A i \in DOMAIN applied : applied[i] = order[i]
       /\ raised => applied = order
       /\ pc = "rm_raised" <=> raised
       /\ pc = "rm_returned" => ~NodeExists(Lookup(tmp, <<CloneName>>))

\* the function returned after six blocked deletions, the directory renamed
\* aside
C22_Witness ==
    /\ pc = "rm_returned"
    /\ Len(applied) = 12
    /\ merges = 5
    /\ IsDir(Lookup(tmp, <<BackupName>>))
    /\ ~NodeExists(Lookup(tmp, <<CloneName>>))


---------------------------------------------------------------------------
(* The interactive tools: delete-skill.py, move-to-my-user.py and
   backup-my-competencies.py *)

\* a prompt that proceeds whatever is answered
confirm_or_proceed(assume_yes, ans) == "none"

\* confirm_or_exit(prompt, assume_yes=...) where `ans` is what input()
\* returns: the exception raised, "none" when it returns.  strip().lower()
\* is given by its table on the answers of the model.
confirm_or_exit(assume_yes, ans) ==
    LET normal == CASE ans = " Y " -> "y"
                    [] ans = "YES" -> "yes"
                    [] OTHER -> ans
    IN IF assume_yes \/ normal \in {"y", "yes"} THEN "none" ELSE "RuntimeError"

\* delete-skill.py's remove_from_competency_manifest(manifest_path, skill_id)
\* on the tree `root`, the manifest being the list of the skills its bom
\* names
remove_from_competency_manifest(root, manifest_path, skill_id) ==
    LET n == Lookup(root, manifest_path)
        Others(x) == x # skill_id
    IN IF ~NodeExists(n) THEN Done(root)
       ELSE IF IsDir(n) THEN Failed(root, "OSError")
       ELSE IF n.data[1] = "raw" THEN Failed(root, "RuntimeError")
       ELSE IF n.data[1] = "json" THEN Failed(root, "AttributeError")
       ELSE IF n.data[1] # "manifest" THEN Done(root)
       ELSE IF \A i \in DOMAIN n.data[2] : n.data[2][i] # skill_id THEN Done(root)
       ELSE Done(Put(root, manifest_path, Manifest(SelectSeq(n.data[2], Others))))

\* move-to-my-user.py's copy_or_move_dir(src, dst, move=..., overwrite=...)
\* for the skill at `path` of the repository `local` and of the global
\* install `global`: [local, global, err]
copy_or_move_dir(local, global, path, move, overwrite) ==
    LET src == Lookup(local, path)
        dst == Lookup(global, path)
        same == [local |-> local, global |-> global, err |-> "RuntimeError"]
    IN IF ~IsDir(src) THEN same
       ELSE IF NodeExists(dst) /\ ~overwrite THEN same
       ELSE IF IsFile(dst) THEN [same EXCEPT !.err = "OSError"]
       ELSE [local |-> IF move THEN Remove(local, path) ELSE local,
             global |-> Put(global, path, CopyTree(src)),
             err |-> "none"]

\* move-to-my-user.py's ensure_my_competencies_manifest(paths, skill_id) on
\* the global install
ensure_my_competencies_manifest(global, skill_id) ==
    LET manifest_path == <<"competencies", "my-competencies", "competency-manifest.json">>
        n == Lookup(global, manifest_path)
        skills == IF NodeExists(n) THEN n.data[2] ELSE <<>>
    IN IF IsDir(n) THEN Failed(global, "OSError")
       ELSE IF IsFile(n) /\ n.data[1] = "raw" THEN Failed(global, "RuntimeError")
       ELSE IF IsFile(n) /\ n.data[1] # "manifest" THEN Failed(global, "AttributeError")
       ELSE Done(Put(global, manifest_path,
                     Manifest(IF \E i \in DOMAIN skills : skills[i] = skill_id
                              THEN skills ELSE Append(skills, skill_id))))

\* move-to-my-user.py's add_competency_to_active_collection(collections_file)
\* on the repository
add_competency_to_active_collection(local) ==
    LET n == Lookup(local, CollectionsPath)
        data == n.data[2]
        colls == data.collections[2]
        active == data.metadata[2].active_collection
        IsActive(j) == /\ colls[j][1] = "dict"
                       /\ "id" \in DOMAIN colls[j][2]
                       /\ colls[j][2].id = active
        found == {j \in DOMAIN colls : IsActive(j)}
        first == CHOOSE j \in found : \A k \in found : j <= k
        comps == colls[first][2].competencies
        mine == Str("my-competencies")
        listed == IF \E i \in DOMAIN comps[2] : comps[2][i] = mine
                  THEN comps[2] ELSE Append(comps[2], mine)
    IN IF ~IsFile(n) \/ n.data[1] = "raw" THEN Failed(local, "RuntimeError")
       ELSE IF n.data[1] # "collections" \/ data.metadata[1] # "dict"
       THEN Failed(local, "AttributeError")
       ELSE IF "active_collection" \notin DOMAIN data.metadata[2]
       THEN Failed(local, "RuntimeError")
       ELSE IF data.collections[1] # "list" THEN Failed(local, "TypeError")
       ELSE IF found = {} \/ comps[1] # "list" THEN Failed(local, "RuntimeError")
       ELSE Done(Put(local, CollectionsPath,
                     File(<<"collections",
                            [data EXCEPT !.collections =
                                List([colls EXCEPT ![first] =
                                        Object([colls[first][2] EXCEPT
                                                   !.competencies = List(listed)])])]>>)))

---------------------------------------------------------------------------
(* Scenario: one run of an interactive tool *)

\* what the user types at a prompt
Answers == {"y", "yes", " Y ", "YES", "n", "no", "", "q"}

InitTools ==
    /\ pc = "confirm"
    /\ \E tool \in {"delete-skill", "move-to-my-user", "backup-my-competencies"},
          yes \in BOOLEAN, a \in BOOLEAN, b \in BOOLEAN :
          /\ tool = "backup-my-competencies" => (~a /\ ~b)
          /\ args = [tool |-> tool, skill_id |-> "s1", yes |-> yes,
                     local |-> (tool = "delete-skill" /\ a),
                     reindex |-> (tool = "delete-skill" /\ b),
                     move |-> (tool = "move-to-my-user" /\ a),
                     overwrite |-> (tool = "move-to-my-user" /\ b)]
    /\ \E skill \in {Missing, SkillDir, Raw(0)},
          manifest \in {Missing, Manifest(<<>>), Manifest(<<"s1">>),
                        Manifest(<<"s2", "s1">>), Raw(0)} :
          target = Dir(Holding("skills", Dir(Holding("s1", skill)))
                       @@ "competencies" :>
                             Dir("my-competencies" :>
                                    Dir(Holding("competency-manifest.json", manifest))))
    /\ LET LocalCollections(id, comps) ==
               File(<<"collections",
                      [collections |->
                          List(<<Object([id |-> id, competencies |-> List(comps)])>>),
                       metadata |-> Object([lastUpdated |-> 0,
                                            active_collection |-> "a"])]>>)
       IN
       \E skill \in {Missing, SkillDir},
          manifest \in {Missing, Manifest(<<"s1">>)},
          config \in {Missing, Raw(0),
                      LocalCollections("a", <<Str("core")>>),
                      LocalCollections("a", <<Str("my-competencies")>>),
                      LocalCollections("b", <<Str("core")>>)} :
          local_root = Dir("skills" :> Dir(Holding("s1", skill))
                           @@ "competencies" :>
                                 Dir("team-competencies" :>
                                        Dir(Holding("competency-manifest.json", manifest)))
                           @@ "reference" :>
                                 Dir(Holding("competency-collections.json", config)))
    /\ snapB = target
    /\ restored = local_root
    /\ before = target
    /\ snapA = local_root
    /\ outside = UserHome
    /\ applied = <<>>
    /\ idx = 0
    /\ raised = FALSE
    /\ tmp = EmptyDir
    /\ secondary = <<>>
    /\ remote = <<>>
    /\ clock = 0
    /\ rewrote = FALSE
    /\ preserve_root = "None"
    /\ merges = 0
    /\ written = FALSE

\* main() up to and including its first confirm_or_exit; `applied` keeps
\* the answers given, `before` and `snapA` the two trees as they were when
\* the prompt was shown.  move-to-my-user.py first requires the collections
\* file of the repository.
Confirm ==
    /\ pc = "confirm"
    /\ IF /\ args.tool = "move-to-my-user"
          /\ ~NodeExists(Lookup(local_root, CollectionsPath))
       THEN /\ pc' = "exit_1"
            /\ raised' = TRUE
            /\ UNCHANGED <<applied, idx, before, snapA>>
       ELSE \E ans \in Answers :
               LET err == confirm_or_exit(args.yes, ans)
               IN /\ applied' = IF args.yes THEN applied ELSE Append(applied, ans)
                  /\ idx' = IF args.yes THEN idx ELSE idx + 1
                  /\ before' = target
                  /\ snapA' = local_root
                  /\ raised' = (err # "none")
                  /\ pc' = IF err # "none" THEN "exit_1"
                           ELSE CASE args.tool = "delete-skill" -> "delete"
                                  [] args.tool = "move-to-my-user" -> "move"
                                  [] OTHER -> "backup"
    /\ UNCHANGED <<target, outside, tmp, local_root, args, secondary, remote, clock,
                   rewrote, preserve_root, snapB, restored, merges, written>>

\* delete-skill.py main() after the prompt: shutil.rmtree of the skill
\* directory when it exists, then remove_from_competency_manifest
DeleteSkill ==
    /\ pc = "delete"
    /\ LET root == IF args.local THEN local_root ELSE target
           manifest_path == <<"competencies",
                              IF args.local THEN "team-competencies" ELSE "my-competencies",
                              "competency-manifest.json">>
           rm == rmtree_if_exists(root, <<"skills", args.skill_id>>)
           r == IF rm.err # "none" THEN rm
                ELSE remove_from_competency_manifest(rm.node, manifest_path, args.skill_id)
       IN /\ target' = IF args.local THEN target ELSE r.node
          /\ local_root' = IF args.local THEN r.node ELSE local_root
          /\ raised' = (r.err # "none")
          /\ pc' = IF r.err # "none" THEN "exit_1"
                   ELSE IF args.reindex THEN "reindex" ELSE "exit_0"
    /\ UNCHANGED <<outside, tmp, args, secondary, remote, idx, applied, clock, rewrote,
                   preserve_root, before, snapA, snapB, restored, merges, written>>

\* move-to-my-user.py main() between its two prompts: copy_or_move_dir,
\* ensure_my_competencies_manifest, add_competency_to_active_collection
MoveSkill ==
    /\ pc = "move"
    /\ LET moved == copy_or_move_dir(local_root, target, <<"skills", args.skill_id>>,
                                     args.move, args.overwrite)
           ensured == IF moved.err # "none" THEN Failed(moved.global, moved.err)
                      ELSE ensure_my_competencies_manifest(moved.global, args.skill_id)
           added == IF ensured.err # "none" THEN Failed(moved.local, ensured.err)
                    ELSE add_competency_to_active_collection(moved.local)
       IN /\ target' = ensured.node
          /\ local_root' = added.node
          /\ raised' = (added.err # "none")
          /\ pc' = IF added.err # "none" THEN "exit_1" ELSE "confirm_reindex"
    /\ UNCHANGED <<outside, tmp, args, secondary, remote, idx, applied, clock, rewrote,
                   preserve_root, before, snapA, snapB, restored, merges, written>>

\* move-to-my-user.py's second confirm_or_exit
ConfirmReindex ==
    /\ pc = "confirm_reindex"
    /\ \E ans \in Answers :
          LET err == confirm_or_exit(args.yes, ans)
          IN /\ applied' = IF args.yes THEN applied ELSE Append(applied, ans)
             /\ idx' = IF args.yes THEN idx ELSE idx + 1
             /\ raised' = (err # "none")
             /\ pc' = IF err # "none" THEN "exit_1" ELSE "reindex"
    /\ before' = target
    /\ snapA' = local_root
    /\ UNCHANGED <<target, outside, tmp, local_root, args, secondary, remote, clock,
                   rewrote, preserve_root, snapB, restored, merges, written>>

\* run_select_collection: tools/select-collection.py is run as a child
\* process, which succeeds or not; delete-skill.py first reads the active
\* collection of the repository's collections file
Reindex ==
    /\ pc = "reindex"
    /\ LET n == Lookup(local_root, CollectionsPath)
           readable == /\ IsFile(n)
                       /\ n.data[1] = "collections"
                       /\ n.data[2].metadata[1] = "dict"
                       /\ "active_collection" \in DOMAIN n.data[2].metadata[2]
       IN \E ok \in (IF args.tool = "delete-skill" /\ ~readable
                     THEN {FALSE} ELSE BOOLEAN) :
             /\ pc' = IF ok THEN "exit_0" ELSE "exit_1"
             /\ raised' = ~ok
    /\ UNCHANGED <<target, outside, tmp, local_root, args, secondary, remote, idx,
                   applied, clock, rewrote, preserve_root, before, snapA, snapB,
                   restored, merges, written>>

\* backup-my-competencies.py after its prompt: a copy of the user's
\* competency is made beside the installation root
BackupCompetencies ==
    /\ pc = "backup"
    /\ outside' = Dir(WithEntry(outside.ch, "olaf-backup",
                                CopyTree(Lookup(target, <<"competencies", "my-competencies">>))))
    /\ pc' = "exit_0"
    /\ UNCHANGED <<target, tmp, local_root, args, secondary, remote, idx, applied,
                   clock, rewrote, preserve_root, before, raised, snapA, snapB,
                   restored, merges, written>>

NextTools ==
    Confirm \/ DeleteSkill \/ MoveSkill \/ ConfirmReindex \/ Reindex \/ BackupCompetencies

SpecTools == InitTools /\ [][NextTools]_vars

---------------------------------------------------------------------------
(* Scenario: two runs of main() that overlap in time and share the temp
   directory *)

\* In this scenario pc, target, secondary, preserve_root, raised and applied
\* hold one value per run; `snapA` holds the effective seed of each run
\* (--repo, --branch), `idx` the run whose fetch filled the seed snapshot
\* directory (0: none) and `applied` the run whose fetch filled the snapshot
\* each run merged (0: none merged yet).
Runs == {1, 2}

\* the repositories git can reach
OverlapRemote ==
    PrimarySource :> CloneOf(SkillPackage(9))
    @@ <<"org/x", "v1">> :> CloneOf(FullPackage(1))

InitOverlap ==
    /\ pc = [r \in Runs |-> "clone_primary"]
    /\ \E t \in {Missing, InstalledRoot} : target = <<InstalledRoot, t>>
    /\ \E seed \in DOMAIN OverlapRemote : snapA = <<PrimarySource, seed>>
    /\ remote = OverlapRemote
    /\ tmp = EmptyDir
    /\ outside = UserHome
    /\ local_root = Dir(".git" :> EmptyDir)
    /\ args = DefaultArgs
    /\ secondary = [r \in Runs |-> <<>>]
    /\ preserve_root = [r \in Runs |-> "None"]
    /\ raised = [r \in Runs |-> FALSE]
    /\ applied = [r \in Runs |-> 0]
    /\ idx = 0
    /\ clock = 1
    /\ rewrote = FALSE
    /\ before = Missing
    /\ snapB = Missing
    /\ restored = Missing
    /\ merges = 0
    /\ written = FALSE

\* clone_repo_to(repo=repo, branch=branch, dst=clone_dir), clone_dir being
\* temp_base / "haal_olaf_clone" in every run
RunClonePrimary ==
    \E r \in Runs :
        /\ pc[r] = "clone_primary"
        /\ LET c == clone_repo_to(remote, snapA[r], tmp, CloneName)
           IN /\ tmp' = c.node
              /\ idx' = IF c.err = "none" THEN r ELSE 0
              /\ raised' = [raised EXCEPT ![r] = (c.err # "none")]
              /\ pc' = [pc EXCEPT ![r] = After(c.err, "preserve")]
        /\ UNCHANGED <<target, outside, local_root, args, secondary, remote, applied,
                       clock, rewrote, preserve_root, before, scenarioVars>>

\* preserve_root, _ = preserve_my_competencies(target_dir)
RunPreserve ==
    \E r \in Runs :
        /\ pc[r] = "preserve"
        /\ LET p == IF ~args.clean_global /\ ~args.no_preserve_my_competencies
                    THEN preserve_my_competencies(target[r], tmp)
                    ELSE [root |-> "None", tmp |-> tmp, err |-> "none"]
           IN /\ preserve_root' = [preserve_root EXCEPT ![r] = p.root]
              /\ tmp' = p.tmp
              /\ raised' = [raised EXCEPT ![r] = (p.err # "none")]
              /\ pc' = [pc EXCEPT ![r] = After(p.err, "registry")]
        /\ UNCHANGED <<target, outside, local_root, args, secondary, remote, idx,
                       applied, clock, rewrote, before, scenarioVars>>

\* secondary, registry_msg = load_registry_with_diagnostics(clone_dir); no
\* seed of this scenario declares a secondary
RunLoadRegistry ==
    \E r \in Runs :
        /\ pc[r] = "registry"
        /\ LET reg == load_registry_with_diagnostics(Child(tmp, CloneName))
           IN /\ secondary' = [secondary EXCEPT ![r] = reg.entries]
              /\ raised' = [raised EXCEPT ![r] = (reg.err # "none")]
              /\ pc' = [pc EXCEPT ![r] =
                           After(reg.err, IF reg.entries = <<>> THEN "merge_primary"
                                          ELSE "secondaries")]
        /\ UNCHANGED <<target, outside, tmp, local_root, args, remote, idx, applied,
                       clock, rewrote, preserve_root, before, scenarioVars>>

\* merge_install_from_clone(clone_dir=clone_dir, target_dir=target_dir)
RunMergePrimary ==
    \E r \in Runs :
        /\ pc[r] = "merge_primary"
        /\ \E o \in merge_install_from_clone(Child(tmp, CloneName), target[r]) :
              /\ target' = [target EXCEPT ![r] = o.node]
              /\ applied' = IF o.err = "none" THEN [applied EXCEPT ![r] = idx]
                            ELSE applied
              /\ raised' = [raised EXCEPT ![r] = (o.err # "none")]
              /\ pc' = [pc EXCEPT ![r] = After(o.err, "restore")]
        /\ UNCHANGED <<outside, tmp, local_root, args, secondary, remote, idx, clock,
                       rewrote, preserve_root, before, scenarioVars>>

\* restore_my_competencies(target_dir, preserve_root)
RunRestore ==
    \E r \in Runs :
        /\ pc[r] = "restore"
        /\ LET res == restore_my_competencies(target[r], tmp, preserve_root[r])
           IN /\ target' = [target EXCEPT ![r] = res.node]
              /\ raised' = [raised EXCEPT ![r] = (res.err # "none")]
              /\ pc' = [pc EXCEPT ![r] = After(res.err, "prune")]
        /\ UNCHANGED <<outside, tmp, local_root, args, secondary, remote, idx, applied,
                       clock, rewrote, preserve_root, before, scenarioVars>>

\* apply_prune_list(target_dir, clone_dir, secondary_clone_dirs, ..)
RunPrune ==
    \E r \in Runs :
        /\ pc[r] = "prune"
        /\ LET res == apply_prune_list(World(target[r], outside), Child(tmp, CloneName),
                                       SecondaryCloneDirs(tmp, Len(secondary[r])),
                                       local_root, ~args.no_prune, args.prune_file)
           IN /\ target' = [target EXCEPT ![r] = Lookup(res.node, TargetPath)]
              /\ outside' = OutsideOf(res.node)
              /\ raised' = [raised EXCEPT ![r] = (res.err # "none")]
              /\ pc' = [pc EXCEPT ![r] = IF res.err = "none" THEN "sanitize"
                                         ELSE "uncaught"]
        /\ UNCHANGED <<tmp, local_root, args, secondary, remote, idx, applied, clock,
                       rewrote, preserve_root, before, scenarioVars>>

\* sanitize_global_competency_collections(target_dir)
RunSanitize ==
    \E r \in Runs :
        /\ pc[r] = "sanitize"
        /\ LET res == sanitize_global_competency_collections(target[r], clock)
           IN /\ target' = [target EXCEPT ![r] = res.node]
              /\ rewrote' = res.wrote
              /\ raised' = [raised EXCEPT ![r] = (res.err # "none")]
              /\ pc' = [pc EXCEPT ![r] = IF res.err = "none" THEN "tools"
                                         ELSE "uncaught"]
        /\ clock' = clock + 1
        /\ UNCHANGED <<outside, tmp, local_root, args, secondary, remote, idx, applied,
                       preserve_root, before, scenarioVars>>

\* install_minimal_tools(target_dir, clone_dir) and the steps after it, which
\* read the seed snapshot directory and return or raise
RunFinish ==
    \E r \in Runs :
        /\ pc[r] = "tools"
        /\ \E err \in {"none", "RuntimeError", "OSError"} :
              /\ raised' = [raised EXCEPT ![r] = (err # "none")]
              /\ pc' = [pc EXCEPT ![r] = After(err, "exit_0")]
        /\ UNCHANGED <<target, outside, tmp, local_root, args, secondary, remote, idx,
                       applied, clock, rewrote, preserve_root, before, scenarioVars>>

NextOverlap ==
    \/ RunClonePrimary
    \/ RunPreserve
    \/ RunLoadRegistry
    \/ RunMergePrimary
    \/ RunRestore
    \/ RunPrune
    \/ RunSanitize
    \/ RunFinish

SpecOverlap == InitOverlap /\ [][NextOverlap]_vars

\* the steps of main() between the fetch of the seed and the end of the run,
\* all of which read the seed snapshot directory or run before one that does
UsingSnapshot ==
    {"preserve", "registry", "merge_primary", "restore", "prune", "sanitize", "tools"}

\* C30: each run uses freshly-named scratch paths, so overlapping runs keep
\* apart.  While a run is between its fetch and its end, the seed snapshot
\* directory it reads is the one its own fetch filled: no other run deleted
\* or overwrote it; the snapshot a run merged is one it fetched itself; and
\* two runs never hold the same preservation bundle directory.
C30_OverlappingRunsKeepApart ==
    /\ \A r \in Runs : pc[r] \in UsingSnapshot => idx = r
    /\ \A r \in Runs : applied[r] \in {0, r}
    /\ \A r \in Runs, q \in Runs :
          (r # q /\ preserve_root[r] # "None") => preserve_root[r] # preserve_root[q]

\* C30, amended: only the preservation bundle directory is freshly named.
\* The bundle a run creates gets a name no entry of the temp directory had,
\* it differs from the bundle of the other run, and once a run holds a bundle
\* no step of either run renames, replaces or changes it.  (The snapshot
\* directories have fixed names that all runs share.)
C30_BundlesKeepApart ==
    [][\A r \in Runs :
          preserve_root'[r] # "None" =>
              /\ \A q \in Runs \ {r} : preserve_root'[q] # preserve_root'[r]
              /\ preserve_root[r] = "None" =>
                    ~NodeExists(Child(tmp, preserve_root'[r]))
              /\ preserve_root[r] # "None" =>
                    /\ preserve_root'[r] = preserve_root[r]
                    /\ Child(tmp', preserve_root[r]) = Child(tmp, preserve_root[r])]_vars

\* both runs created a bundle and restored from it while the other run was
\* still going on; the second run's fetch replaced the snapshot of the first
C30_Witness ==
    /\ pc = <<"prune", "prune">>
    /\ preserve_root[1] # "None"
    /\ preserve_root[2] # "None"
    /\ preserve_root[1] # preserve_root[2]
    /\ idx = 2
    /\ \A r \in Runs : IsFile(Lookup(target[r], KernelPath \o <<"competency-manifest.json">>))

---------------------------------------------------------------------------
(* Scenario: a run of main() that is killed during its merge phase, and the
   run started after it *)

\* `snapB` keeps the installation root as the first run found it; `merges`
\* counts the runs that were killed.  git cannot reach org/x.
InitRerun ==
    /\ pc = "clean_global"
    /\ target \in {Missing, InstalledRoot}
    /\ snapB = target
    /\ \E pkg \in {SkillPackage(9), FullPackage(9), Missing},
          items \in {<<Str("org/y")>>, <<Str("org/x@v1"), Str("org/y")>>},
          y \in {CloneOf(NotesPackage(2)), CloneOf(SkillPackage(2)),
                 Dir("README.md" :> Raw(2))} :
          remote = PrimarySource :>
                       Dir(Holding(".olaf", pkg)
                           @@ "_olaf-registry.json" :> RegistryDoc(List(items)))
                   @@ <<"org/y", "main">> :> y
    /\ args = DefaultArgs
    /\ outside = UserHome
    /\ tmp = EmptyDir
    /\ local_root = Dir(".git" :> EmptyDir)
    /\ secondary = <<>>
    /\ idx = 0
    /\ applied = <<>>
    /\ clock = 1
    /\ rewrote = FALSE
    /\ preserve_root = "None"
    /\ before = target
    /\ raised = FALSE
    /\ snapA = Missing
    /\ restored = <<>>
    /\ merges = 0
    /\ written = FALSE

\* what merge_install_from_clone(clone, dst) can leave at dst when the
\* process is killed inside it: any set of the top-level entries handled
PartialMerges(clone, dst) ==
    IF ~IsDir(Pkg(clone)) \/ IsFile(dst) THEN {dst}
    ELSE LET d == IF IsDir(dst) THEN dst ELSE EmptyDir
         IN {dst} \cup {MergeChildren(Pkg(clone), d, handled) :
                          handled \in SUBSET ((DOMAIN Pkg(clone).ch) \ ExcludeNames)}

\* the process is killed between preserve and restore: before a step of the
\* merge phase, or inside the merge of the primary; main() is then started
\* again on what it left, the temp directory keeping the snapshot
\* directories and the bundle
Interrupt ==
    /\ merges = 0
    /\ pc \in {"secondaries", "merge_primary", "restore"}
    /\ target' \in (IF pc = "merge_primary"
                    THEN PartialMerges(Child(tmp, CloneName), target)
                    ELSE {target})
    /\ merges' = 1
    /\ pc' = "clean_global"
    /\ secondary' = <<>>
    /\ idx' = 0
    /\ applied' = <<>>
    /\ preserve_root' = "None"
    /\ raised' = FALSE
    /\ restored' = <<>>
    /\ before' = target
    /\ UNCHANGED <<outside, tmp, local_root, args, remote, clock, rewrote, snapA,
                   snapB, written>>

NextRerun ==
    \/ Interrupt
    \/ CleanGlobal
    \/ ClonePrimary
    \/ PreserveUserState
    \/ LoadRegistry
    \/ ApplySecondary
    \/ MergePrimary
    \/ RestoreUserState
    \/ Prune
    \/ Sanitize
    \/ FinishInstall

SpecRerun == InitRerun /\ [][NextRerun]_vars

\* the installation root after the overlays of `clones` were merged into
\* root one after the other, a snapshot without package subtree being skipped
RECURSIVE MergeAll(_, _)
MergeAll(root, clones) ==
    IF clones = <<>> THEN root
    ELSE LET o == CHOOSE o \in merge_install_from_clone(Head(clones), root) : TRUE
         IN MergeAll(o.node, Tail(clones))

\* the installation root a run of main() that is not interrupted leaves
\* after its restore, started on `root` with an empty temp directory
UninterruptedRun(root) ==
    LET p == preserve_my_competencies(root, EmptyDir)
        clones == [i \in DOMAIN secondary |-> remote[secondary_to_apply[i]]]
                      \o <<remote[PrimarySource]>>
    IN restore_my_competencies(MergeAll(root, clones), p.tmp, p.root).node

\* C31: re-runs repair an interrupted run.  When the run started after a
\* killed one is past its restore, every file path supplied by the sources
\* holds what it holds after an uninterrupted run on the installation root
\* the killed run found; and a run that was not interrupted ends with the
\* same content at those paths.
C31_RerunRepairs ==
    pc = "prune" =>
        \A p \in MergedFilePaths(remote[PrimarySource])
                    \cup UNION {MergedFilePaths(remote[secondary[i]]) : i \in DOMAIN secondary} :
            Lookup(target, p) = Lookup(UninterruptedRun(snapB), p)

\* C33: a run that aborts after its bundle was taken and before its restore
\* leaves the user state as it found it.  When main() has ended with an
\* error, holding a bundle it has not restored, the kernel package subtree
\* and every skill directory the bundle preserved are in the installation
\* root with their content of before the run.
C33_AbortKeepsUserState ==
    (/\ merges = 0
     /\ pc \in {"exit_1", "uncaught"}
     /\ preserve_root # "None"
     /\ restored = <<>>) =>
        /\ Lookup(target, KernelPath) = Lookup(snapB, KernelPath)
        /\ \A sid \in ReferencedSkills(Lookup(snapB, KernelManifestPath)) :
              IsDir(Lookup(snapB, SkillPath(sid))) =>
                  Lookup(target, SkillPath(sid)) = Lookup(snapB, SkillPath(sid))

---------------------------------------------------------------------------
(* Scenario: the normalize step and the steps after it, on config documents
   with an active collection *)

\* a config document whose collections have the ids a, b, .. and the given
\* "competencies" lists, "active" being the active collection
ActiveDoc(lists, active) ==
    File(<<"collections",
           [collections |->
               List([i \in DOMAIN lists |->
                        Object([id |-> <<"a", "b", "c">>[i],
                                competencies |-> List(lists[i])])]),
            metadata |-> Object([lastUpdated |-> 0, active_collection |-> active])]>>)

InitNormalize ==
    /\ pc = "sanitize"
    /\ \E lists \in SeqsUpTo({<<Str("core")>>, <<Str("gone")>>,
                              <<Str("olaf-admin"), Str("haal-admin")>>},
                             MaxCollections),
          active \in {"a", "b"},
          comps \in {Dir("core" :> EmptyDir),
                     Dir("core" :> EmptyDir @@ "haal-admin" :> EmptyDir)} :
          target = Dir("competencies" :> comps
                       @@ "reference" :>
                              Dir("competency-collections.json" :> ActiveDoc(lists, active)))
    /\ \E seed \in {Missing, Raw(0), ActiveDoc(<<>>, "a"), ActiveDoc(<<>>, "b"),
                    CollectionsDoc(List(<<>>), Metadata(0))} :
          tmp = Dir(CloneName :>
                       Dir(".olaf" :> SkillPackage(9)
                           @@ "reference" :>
                                  Dir(Holding("competency-collections.json", seed))))
    /\ before = target
    /\ clock = 1
    /\ rewrote = FALSE
    /\ raised = FALSE
    /\ outside = UserHome
    /\ local_root = Dir(".git" :> EmptyDir)
    /\ args = DefaultArgs
    /\ secondary = <<>>
    /\ remote = <<>>
    /\ idx = 0
    /\ applied = <<>>
    /\ preserve_root = "None"
    /\ snapA = Missing
    /\ snapB = Missing
    /\ restored = <<>>
    /\ merges = 0
    /\ written = FALSE

NextNormalize == Sanitize \/ FinishInstall

SpecNormalize == InitNormalize /\ [][NextNormalize]_vars

\* the config document of root names as active a collection it lists
ActiveIsListed(root) ==
    LET file == Lookup(root, CollectionsPath)
    IN /\ IsFile(file)
       /\ file.data[1] = "collections"
       /\ file.data[2].collections[1] = "list"
       /\ file.data[2].metadata[1] = "dict"
       /\ "active_collection" \in DOMAIN file.data[2].metadata[2]
       /\ \E i \in DOMAIN file.data[2].collections[2] :
             LET c == file.data[2].collections[2][i]
             IN /\ c[1] = "dict"
                /\ "id" \in DOMAIN c[2]
                /\ c[2].id = file.data[2].metadata[2].active_collection

ActiveOf(root) ==
    LET file == Lookup(root, CollectionsPath)
    IN IF /\ IsFile(file)
          /\ file.data[1] = "collections"
          /\ file.data[2].metadata[1] = "dict"
          /\ "active_collection" \in DOMAIN file.data[2].metadata[2]
       THEN file.data[2].metadata[2].active_collection
       ELSE ""

---------------------------------------------------------------------------
(* Scenario: main() from the prune step to its end, on installation roots
   whose config document lists competencies that prune lists name *)

\* `snapB` keeps the installation root as the prune step found it
InitTail ==
    /\ pc = "prune"
    /\ \E lists \in SeqsUpTo({<<Str("c1")>>, <<Str("core")>>, <<Str("core"), Str("c1")>>},
                             MaxCollections) :
          target = Dir("competencies" :>
                           Dir("c1" :> Dir("competency-manifest.json" :> Manifest(<<>>))
                               @@ "core" :> Dir("competency-manifest.json" :> Manifest(<<>>)))
                       @@ "skills" :> Dir("s1" :> SkillDir)
                       @@ "reference" :>
                              Dir("competency-collections.json" :> ActiveDoc(lists, "a")))
    /\ snapB = target
    /\ \E prune \in {Missing, PruneDoc(<<>>, <<"c1">>), PruneDoc(<<"s1">>, <<"core", "c9">>)},
          seed \in {Missing, ActiveDoc(<<>>, "b")} :
          tmp = Dir(CloneName :>
                       Dir(".olaf" :> SkillPackage(9)
                           @@ "reference" :>
                                  Dir(Holding("olaf-prune-list.json", prune)
                                      @@ Holding("competency-collections.json", seed))))
    /\ \E np \in BOOLEAN : args = [DefaultArgs EXCEPT !.no_prune = np]
    /\ before = target
    /\ clock = 1
    /\ rewrote = FALSE
    /\ raised = FALSE
    /\ outside = UserHome
    /\ local_root = Dir(".git" :> EmptyDir)
    /\ secondary = <<>>
    /\ remote = <<>>
    /\ idx = 0
    /\ applied = <<>>
    /\ preserve_root = "None"
    /\ snapA = Missing
    /\ restored = <<>>
    /\ merges = 0
    /\ written = FALSE

NextTail == Prune \/ Sanitize \/ FinishInstall

SpecTail == InitTail /\ [][NextTail]_vars

\* the "collections" value of the config document of root
CollectionsOf(root) ==
    LET file == Lookup(root, CollectionsPath)
    IN IF IsFile(file) /\ file.data[1] = "collections"
       THEN file.data[2].collections ELSE Other

---------------------------------------------------------------------------
(* load_registry_with_diagnostics on registry lists with tokens that have  *)
(* nothing before or after the "@", followed by the loop over the entries  *)

\* the tokens a registry list of this scenario is made of
ResolveTokens == {Str("@v1"), Str("org/y@"), Str("  "), Str("org/x@v1"), Other}

MaxTokens == 3

InitResolve ==
    /\ pc = "registry"
    /\ \E items \in SeqsUpTo(ResolveTokens, MaxTokens) :
          tmp = Dir(CloneName :>
                       Dir(".olaf" :> SkillPackage(9)
                           @@ "_olaf-registry.json" :> RegistryDoc(List(items))))
    /\ remote = (<<"org/y", "main">> :> CloneOf(NotesPackage(2)))
    /\ target = Missing
    /\ snapB = target
    /\ args = DefaultArgs
    /\ before = target
    /\ clock = 1
    /\ rewrote = FALSE
    /\ raised = FALSE
    /\ outside = UserHome
    /\ local_root = Dir(".git" :> EmptyDir)
    /\ secondary = <<>>
    /\ idx = 0
    /\ applied = <<>>
    /\ preserve_root = "None"
    /\ snapA = Missing
    /\ restored = <<>>
    /\ merges = 0
    /\ written = FALSE

NextResolve == LoadRegistry \/ ApplySecondary

SpecResolve == InitResolve /\ [][NextResolve]_vars

\* C37: every entry the registry resolver returns has a non-empty
\* repository and a non-empty branch: a token with nothing before the "@"
\* or made of whitespace only is skipped, and a token with nothing after the
\* "@" gets the branch "main".
C37_EntriesAreComplete ==
    pc \in AfterRegistry =>
        /\ \A k \in DOMAIN secondary : secondary[k][1] # "" /\ secondary[k][2] # ""
        /\ Len(secondary) =
              Cardinality({i \in DOMAIN DeclaredItems :
                              DeclaredItems[i] \in {Str("org/y@"), Str("org/x@v1")}})
        /\ \A k \in DOMAIN secondary :
              secondary[k] \in {<<"org/y", "main">>, <<"org/x", "v1">>}

---------------------------------------------------------------------------
(* The normalize step: identifiers a rename maps onto one another *)

\* the "competencies" lists of the collections of the config document of root
CompetencyListsOf(root) ==
    LET file == Lookup(root, CollectionsPath)
        colls == file.data[2].collections[2]
    IN IF IsFile(file) /\ file.data[1] = "collections"
          /\ file.data[2].collections[1] = "list"
       THEN {colls[i][2].competencies[2] :
                i \in {j \in DOMAIN colls : /\ colls[j][1] = "dict"
                                            /\ colls[j][2].competencies[1] = "list"}}
       ELSE {}

\* no entry of the list occurs at two positions
NoDuplicates(comps) ==
    \A i \in DOMAIN comps : \A j \in DOMAIN comps : i # j => comps[i] # comps[j]

\* C38: normalization never leaves the same competency identifier twice in
\* one collection when the input list had no duplicates: after the normalize
\* step, if no collection of the document listed an identifier twice before
\* the step, none does after it.
C38_NoDuplicateAfterRename ==
    pc = "tools" =>
        ((\A comps \in CompetencyListsOf(before) : NoDuplicates(comps))
            => \A comps \in CompetencyListsOf(target) : NoDuplicates(comps))

====
